---- MODULE Spec2Model ----
(***************************************************************************)
(* A model of the OSR order console (rishi-desai/order_gui): the workflow  *)
(* controller (controllers/main_controller.py), the line-collection        *)
(* editors (controllers/order_controller.py), the Form (ui/form.py), the   *)
(* Menu (ui/menu.py), the Dialog (ui/dialog.py), the payload builder       *)
(* (models/xml_generator.py), the dispatch collaborator                    *)
(* (models/order_sender.py), the history and configuration stores          *)
(* (models/history.py, models/config.py) and the one-shot cleanup          *)
(* (utils/cli_tools.py).                                                   *)
(*                                                                         *)
(* One step of the model is what the program does between two blocking     *)
(* keyboard reads (getch / getstr): the call of a function, or the         *)
(* handling of one key, with every call it makes, up to the next read or   *)
(* up to the exception that leaves the function.  The keys and lines the   *)
(* terminal delivers are fixed when a behaviour starts (feed); a step that *)
(* reads takes the next of them.                                           *)
(*                                                                         *)
(* The screens read their glyphs from class Symbols of                     *)
(* config/constants.py, which defines twelve names.  show_status reads     *)
(* four names that are not among them, and so do the titles of several     *)
(* screens: such a read raises AttributeError, and every component that    *)
(* calls show_status before its first read of a key leaves with that       *)
(* exception.  The components are therefore also called on their own, each *)
(* with the arguments its callers pass.                                    *)
(*                                                                         *)
(* A Python dict is a function from field names to strings, a Python list  *)
(* a sequence.  An XML payload is the record of the attribute values the   *)
(* template writes into it.                                                *)
(***************************************************************************)
EXTENDS Integers, Sequences, FiniteSets, TLC

(***************************************************************************)
(* Bounds of the model.                                                    *)
(***************************************************************************)
\* most records of a RecordSet a line editor is called with
MaxLines == 2

\* most keys (or typed lines) the terminal delivers to a component
MaxFeed == 2

\* the largest number of options of a menu displayed on its own
MaxOptions == 11

\* the most keys a yes/no dialog displayed on its own is given
MaxKeys == 3

\* the longest text and the widest column given to truncate_text
MaxText == 4

MaxWidth == 5

\* the largest number of rows of the terminal and the largest number of lines,
\* options or fields of a component whose box is computed on its own
MaxRows == 12

MaxContent == 6

\* the largest number of records of a history store given to the cancel flow
MaxHistory == 2

\* the largest number of dispatches recorded in a row
MaxAdds == 102

\* the IOErrors History.save swallows in one run
MaxIOErrors == 1

(***************************************************************************)
(* config/constants.py                                                     *)
(***************************************************************************)
PICK_STANDARD == "Pick Standard"
PICK_MANUAL == "Pick Manual"
INVENTORY == "Inventory"
GOODS_IN == "Goods In"
GOODS_ADD == "Goods Add"
TRANSPORT == "Transport"

ORDER_TYPES == <<PICK_STANDARD, PICK_MANUAL, INVENTORY, GOODS_IN, GOODS_ADD, TRANSPORT>>

LIVE == "Live"
TEST == "Test"

SERVER_TYPES == <<LIVE, TEST>>

TRANSPORT_PROCESSING_MODES == <<"standard", "dispatch", "empty_tray", "first_hit_in_sequence">>

\* the names class Symbols defines
Symbols ==
    {"ARROW_RIGHT", "ARROW_LEFT", "ARROW_UP", "ARROW_DOWN", "BOX_EMPTY", "BOX_CHECKED",
     "HORIZONTAL_LINE", "VERTICAL_LINE", "TOP_LEFT", "TOP_RIGHT", "BOTTOM_LEFT",
     "BOTTOM_RIGHT"}

\* the evaluation of Symbols.<name> for each of the names: the exception it raises,
\* "" when class Symbols has them all
Read(names) == IF names \subseteq Symbols THEN "" ELSE "AttributeError"

(***************************************************************************)
(* Python values.                                                          *)
(***************************************************************************)
\* d[k] = v of Python on a dict d
DictSet(d, k, v) == (k :> v) @@ d

Range(seq) == {seq[i] : i \in DOMAIN seq}

Min(a, b) == IF a < b THEN a ELSE b

Max(a, b) == IF a > b THEN a ELSE b

\* str(i) of Python for an int i >= 0
RECURSIVE str(_)
str(i) ==
    LET digit == <<"0", "1", "2", "3", "4", "5", "6", "7", "8", "9">>
    IN  IF i < 10 THEN digit[i + 1] ELSE str(i \div 10) \o digit[(i % 10) + 1]

\* "".join(chars)
RECURSIVE Join(_)
Join(chars) == IF chars = <<>> THEN "" ELSE Head(chars) \o Join(Tail(chars))

\* text.strip() of a typed text, for the white space " "
RECURSIVE strip_text(_)
strip_text(t) ==
    IF Len(t) > 0 /\ SubSeq(t, 1, 1) = <<" ">>
    THEN strip_text(SubSeq(t, 2, Len(t)))
    ELSE IF Len(t) > 0 /\ SubSeq(t, Len(t), Len(t)) = <<" ">>
         THEN strip_text(SubSeq(t, 1, Len(t) - 1))
         ELSE t

\* the sequences of at most n items of K
Feeds(K, n) == UNION {[1..k -> K] : k \in 0..n}

(***************************************************************************)
(* config/defaults.py                                                      *)
(***************************************************************************)
DEFAULT_ORDER_VALUES ==
    [m \in Range(ORDER_TYPES) |->
        CASE m = PICK_STANDARD ->
                <<("Order Number" :> "1") @@ ("Container / Tray Number" :> "T925001")
                  @@ ("Quantity" :> "10") @@ ("Product Code" :> "test01")
                  @@ ("Product Name" :> "Test-Product-1")>>
          [] m = PICK_MANUAL ->
                <<("Order Number" :> "1") @@ ("Quantity" :> "10")
                  @@ ("Product Code" :> "test01") @@ ("Product Name" :> "Test-Product-1")>>
          [] m = INVENTORY ->
                ("Order Number" :> "1") @@ ("Container / Tray Number" :> "T925001")
                @@ ("Product Code" :> "test01")
          [] m = GOODS_IN ->
                ("Order Number" :> "1") @@ ("Container / Tray Number" :> "T925001")
                @@ ("Container Type" :> "full") @@ ("Quantity" :> "10")
                @@ ("Product Code" :> "test01") @@ ("Product Name" :> "Test-Product-1")
          [] m = GOODS_ADD ->
                ("Order Number" :> "1") @@ ("Quantity" :> "10")
                @@ ("Product Code" :> "test01") @@ ("Product Name" :> "Test-Product-1")
          [] m = TRANSPORT ->
                <<("Order Number" :> "1") @@ ("New Owner" :> "SRC") @@ ("Owner" :> "SRC")
                  @@ ("Target Zone" :> "CIRCULATION") @@ ("Container Number" :> "T925001")
                  @@ ("Container Type" :> "OSR_EVO") @@ ("Compartment Type" :> "full")
                  @@ ("Slot Number" :> "1") @@ ("Quantity" :> "10")
                  @@ ("Product Code" :> "test01") @@ ("Product Name" :> "Test-Product-1")>>]

FIELD_ORDER ==
    [m \in Range(ORDER_TYPES) |->
        CASE m = PICK_STANDARD ->
                <<"Quantity", "Container / Tray Number", "Product Code", "Product Name",
                  "Order Number", "name">>
          [] m = PICK_MANUAL ->
                <<"Quantity", "Product Code", "Product Name", "Order Number", "name">>
          [] m = INVENTORY ->
                <<"Container / Tray Number", "Product Code", "Order Number", "name">>
          [] m = GOODS_IN ->
                <<"Quantity", "Container / Tray Number", "Product Code", "Product Name",
                  "Container Type", "Order Number", "name">>
          [] m = GOODS_ADD ->
                <<"Quantity", "Product Code", "Product Name", "Order Number", "name">>
          [] m = TRANSPORT ->
                <<"Quantity", "Container Number", "Product Code", "Product Name",
                  "Target Zone", "Container Type", "Compartment Type", "New Owner",
                  "Owner", "Slot Number", "Order Number", "name">>]

\* the infix the template of a mode puts between the operator name and the order number
OrderInfix ==
    [m \in Range(ORDER_TYPES) |->
        CASE m = PICK_STANDARD -> "pick"
          [] m = PICK_MANUAL -> "pick-manual"
          [] m = INVENTORY -> "inv"
          [] m = GOODS_IN -> "goods-in"
          [] m = GOODS_ADD -> "goods-add"
          [] m = TRANSPORT -> "transport"]

\* the replacement fields of XML_TEMPLATES[m] that format(**values) takes from values
XML_TEMPLATES ==
    [m \in Range(ORDER_TYPES) |->
        CASE m = PICK_STANDARD -> {"name", "Order Number", "Container / Tray Number"}
          [] m = PICK_MANUAL -> {"name", "Order Number"}
          [] m = INVENTORY ->
                {"name", "Order Number", "Container / Tray Number", "Product Code"}
          [] m = GOODS_IN ->
                {"name", "Order Number", "Container / Tray Number", "cont_type",
                 "Quantity", "Product Code", "Product Name", "capacity_specs"}
          [] m = GOODS_ADD ->
                {"name", "Order Number", "Quantity", "Product Code", "Product Name",
                 "capacity_specs"}
          [] m = TRANSPORT ->
                {"name", "Order Number", "New Owner", "Target Zone", "Container Number",
                 "Container Type", "Compartment Type", "Owner", "slot_contents"}]

\* the replacement fields of LINE_TEMPLATES[m]
LINE_TEMPLATES ==
    [m \in {PICK_STANDARD, PICK_MANUAL, TRANSPORT} |->
        IF m = TRANSPORT
        THEN {"Slot Number", "Quantity", "Product Code", "Product Name"}
        ELSE {"Quantity", "Product Code", "Product Name"}]

(***************************************************************************)
(* models/xml_generator.py: the payload.  A payload is the record of what  *)
(* the template of the mode writes: the root element, the order_number     *)
(* attribute (name, infix, Order Number), the processing mode, the         *)
(* container attribute, one entry per line element and the text of the     *)
(* capacity_spec elements.                                                 *)
(***************************************************************************)
\* an attribute or element the template of the mode does not have
Absent == "<absent>"

NoXml == [root |-> "", order_number |-> <<>>, processing_mode |-> "",
          container_number |-> Absent, lines |-> <<>>, capacity_specs |-> Absent]

\* a payload text of white space only
BlankXml == [NoXml EXCEPT !.root = " "]

\* xml_content.strip()
strip(xml_content) == IF xml_content = BlankXml THEN NoXml ELSE xml_content

Ok(xml) == [ok |-> TRUE, xml |-> xml, error |-> ""]

Raise(error) == [ok |-> FALSE, xml |-> NoXml, error |-> error]

\* template.format(**values) of one line template: a KeyError names a missing field
LineXml(m, values) ==
    [quantity |-> values["Quantity"], product_code |-> values["Product Code"],
     product_name |-> values["Product Name"],
     slot_number |-> IF m = TRANSPORT THEN values["Slot Number"] ELSE Absent]

order_number(m, values) == <<values["name"], OrderInfix[m], values["Order Number"]>>

_generate_pick_order(m, values_list, lines) ==
    IF Len(values_list) = 0
    THEN Raise("Pick orders require a list of values")
    ELSE IF \/ \E i \in DOMAIN values_list : ~(LINE_TEMPLATES[m] \subseteq DOMAIN values_list[i])
            \/ ~(XML_TEMPLATES[m] \subseteq DOMAIN values_list[1])
         THEN Raise("Missing required field in order data")
         ELSE Ok([root |-> "pick_order",
                  order_number |-> order_number(m, values_list[1]),
                  processing_mode |-> IF m = PICK_STANDARD THEN "standard" ELSE "manual",
                  container_number |-> IF m = PICK_STANDARD
                                       THEN values_list[1]["Container / Tray Number"]
                                       ELSE Absent,
                  lines |-> [i \in DOMAIN values_list |-> LineXml(m, values_list[i])],
                  capacity_specs |-> Absent])

_generate_inventory_order(values) ==
    IF ~(XML_TEMPLATES[INVENTORY] \subseteq DOMAIN values)
    THEN Raise("Missing required field in order data")
    ELSE Ok([root |-> "inventory_order",
             order_number |-> order_number(INVENTORY, values),
             processing_mode |-> "standard",
             container_number |-> values["Container / Tray Number"],
             lines |-> <<[quantity |-> Absent, product_code |-> values["Product Code"],
                          product_name |-> Absent, slot_number |-> Absent]>>,
             capacity_specs |-> Absent])

\* the text of the capacity_spec elements of a dict of capacity specs, held as the
\* sequence of its items
RECURSIVE capacity_spec_elements(_)
capacity_spec_elements(items) ==
    IF items = <<>>
    THEN ""
    ELSE "<capacity_spec compartment_type=\"" \o Head(items)[1]
         \o "\" maximum_quantity=\"" \o str(Head(items)[2]) \o "\"/>"
         \o capacity_spec_elements(Tail(items))

\* config.get("capacity_specs", {}) is formatted, one element per item
_generate_capacity_specs(cfg) ==
    capacity_spec_elements(IF "capacity_specs" \in DOMAIN cfg
                           THEN cfg.capacity_specs
                           ELSE <<>>)

\* cont_type and capacity_specs are put into the copy of values by the builder
_generate_goods_in_order(values, cfg) ==
    IF ~(XML_TEMPLATES[GOODS_IN] \subseteq DOMAIN values \cup {"cont_type", "capacity_specs"})
    THEN Raise("Missing required field in order data")
    ELSE Ok([root |-> "goods_in_order",
             order_number |-> order_number(GOODS_IN, values),
             processing_mode |-> "standard",
             container_number |-> Absent,
             lines |-> <<LineXml(GOODS_IN, values)>>,
             capacity_specs |-> _generate_capacity_specs(cfg)])

\* capacity_specs is put into values itself (see generate_effect)
_generate_goods_add_order(values, cfg) ==
    IF ~(XML_TEMPLATES[GOODS_ADD] \subseteq DOMAIN values \cup {"capacity_specs"})
    THEN Raise("Missing required field in order data")
    ELSE Ok([root |-> "goods_in_order",
             order_number |-> order_number(GOODS_ADD, values),
             processing_mode |-> "renewal",
             container_number |-> Absent,
             lines |-> <<LineXml(GOODS_ADD, values)>>,
             capacity_specs |-> _generate_capacity_specs(cfg)])

\* slot_contents is put into values_list[0] itself (see generate_effect)
_generate_transport_order(m, values_list, lines) ==
    IF Len(values_list) = 0
    THEN Raise("Transport orders require a list of values")
    ELSE IF \/ \E i \in DOMAIN values_list : ~(LINE_TEMPLATES[m] \subseteq DOMAIN values_list[i])
            \/ ~(XML_TEMPLATES[m] \subseteq DOMAIN values_list[1] \cup {"slot_contents"})
         THEN Raise("Missing required field in order data")
         ELSE Ok([root |-> "transport_order",
                  order_number |-> order_number(m, values_list[1]),
                  processing_mode |-> "standard",
                  container_number |-> values_list[1]["Container Number"],
                  lines |-> [i \in DOMAIN values_list |-> LineXml(m, values_list[i])],
                  capacity_specs |-> Absent])

\* `not values` of Python: an empty list or an empty dict
IsEmpty(values) == DOMAIN values = {}

\* OrderXML.generate(order_data, config) with order_data = {mode, values, lines}
generate(m, values, lines, cfg) ==
    IF IsEmpty(values)
    THEN Raise("Order values are required")
    ELSE CASE m \in {PICK_STANDARD, PICK_MANUAL} -> _generate_pick_order(m, values, lines)
           [] m = INVENTORY -> _generate_inventory_order(values)
           [] m = GOODS_IN -> _generate_goods_in_order(values, cfg)
           [] m = GOODS_ADD -> _generate_goods_add_order(values, cfg)
           [] m = TRANSPORT -> _generate_transport_order(m, values, lines)

\* what generate leaves in the values it was given: goods-add stores the text of
\* the capacity_spec elements in the dict of the caller before it formats the
\* template, and transport stores slot_contents, the line elements it has formatted,
\* in the first dict of the list
generate_effect(m, values, cfg) ==
    CASE m = GOODS_ADD /\ ~IsEmpty(values) ->
            DictSet(values, "capacity_specs", _generate_capacity_specs(cfg))
      [] /\ m = TRANSPORT
         /\ ~IsEmpty(values)
         /\ \A i \in DOMAIN values : LINE_TEMPLATES[m] \subseteq DOMAIN values[i] ->
            [values EXCEPT ![1] =
                DictSet(@, "slot_contents",
                        [i \in DOMAIN values |-> LineXml(m, values[i])])]
      [] OTHER -> values

(***************************************************************************)
(* models/order_sender.py                                                  *)
(***************************************************************************)
\* re.search(r'order_number="([^"]+)"', xml_content): the attribute of the payload,
\* "unknown" for a text without one
extract_order_id_from_xml(xml) ==
    IF xml.order_number = <<>> THEN <<"unknown">> ELSE xml.order_number

get_order_type_from_xml(xml) ==
    CASE xml.root = "transport_order" -> TRANSPORT
      [] xml.root = "pick_order" ->
            IF xml.container_number # Absent THEN PICK_STANDARD ELSE PICK_MANUAL
      [] xml.root = "goods_in_order" /\ xml.processing_mode = "renewal" -> GOODS_ADD
      [] xml.root = "goods_in_order" -> GOODS_IN
      [] xml.root = "inventory_order" -> INVENTORY
      [] OTHER -> "unknown"

(***************************************************************************)
(* models/history.py                                                       *)
(***************************************************************************)
\* orders[:100]
HistoryCap == 100

\* The history store is the file .orders_history.json: absent, the JSON array
\* History.save wrote, or a file that is not a JSON document.  A store is the pair of
\* what the file is and of the records History.load reads from it: the records of the
\* array, and none from a file that is absent or not a JSON document
\* (history.py:17-25)
\*
\* History.save(orders) on the store: it writes the array; or open(..., "w") raises an
\* IOError and the store is untouched; or json.dump raises one after open has emptied
\* the file.  except IOError: pass swallows both, and save returns
History_save(orders, store, outcome) ==
    CASE outcome = "written" -> [file |-> "array", orders |-> orders]
      [] outcome = "open failed" -> store
      [] outcome = "dump failed" -> [file |-> "not JSON", orders |-> <<>>]

\* an add_order that appends the record at the end of the list
add_order_appends(store, order_id, order_type, osrid, status, outcome) ==
    LET rec == [order_id |-> order_id, type |-> order_type, osrid |-> osrid,
                status |-> status]
        all == store.orders \o <<rec>>
    IN  History_save(SubSeq(all, 1, IF Len(all) < HistoryCap THEN Len(all) ELSE HistoryCap),
                     store, outcome)

\* History.add_order(order_id, order_type, osrid, status): the store it leaves
add_order(store, order_id, order_type, osrid, status, outcome) ==
    LET rec == [order_id |-> order_id, type |-> order_type, osrid |-> osrid,
                status |-> status]
        all == <<rec>> \o store.orders
    IN  History_save(SubSeq(all, 1, IF Len(all) < HistoryCap THEN Len(all) ELSE HistoryCap),
                     store, outcome)

\* History.get_orders_for_osr(osrid)
get_orders_for_osr(orders, osrid) == SelectSeq(orders, LAMBDA o : o.osrid = osrid)

\* a listing of every order of the OSR id, whatever its status
get_active_orders_any_status(orders, osrid) ==
    SelectSeq(orders, LAMBDA o : o.osrid = osrid)

\* History.get_active_orders(osrid)
get_active_orders(orders, osrid) ==
    SelectSeq(orders, LAMBDA o :
        /\ o.osrid = osrid
        /\ o.status \in {"sent", "processing", "pending"}
        /\ o.status \notin {"cancelled", "cancelled_dry_run", "completed", "failed"})

\* History.update_status(order_id, new_status): the first record with that id gets the
\* status, and the list is saved, also when no record has the id
update_status(store, order_id, new_status, outcome) ==
    LET orders == store.orders
    IN  History_save(IF \E i \in DOMAIN orders : orders[i].order_id = order_id
                     THEN LET first == CHOOSE i \in DOMAIN orders :
                                         /\ orders[i].order_id = order_id
                                         /\ \A j \in 1..(i - 1) :
                                               orders[j].order_id # order_id
                          IN  [orders EXCEPT ![first].status = new_status]
                     ELSE orders,
                     store, outcome)

(***************************************************************************)
(* controllers/history_controller.py: the loop of                          *)
(* _confirm_and_cancel_orders over the selected orders.                    *)
(***************************************************************************)
\* selected_orders = [orders[i] for i in selected_indices]
selected_orders(orders, selected_indices) ==
    [j \in DOMAIN selected_indices |-> orders[selected_indices[j] + 1]]

\* the history store after the loop: ok[j] is what cancel_order returned for the j-th
\* selected order, and update_status is called for each order it succeeded on, with
\* the outcome io[j] of its History.save
RECURSIVE cancel_all(_, _, _, _)
cancel_all(store, chosen, ok, io) ==
    IF chosen = <<>>
    THEN store
    ELSE cancel_all(IF Head(ok)
                    THEN update_status(store, Head(chosen).order_id, "cancelled", Head(io))
                    ELSE store,
                    Tail(chosen), Tail(ok), Tail(io))

(***************************************************************************)
(* models/config.py                                                        *)
(***************************************************************************)
\* the key osr_id is not in the config dict
NoOsrId == "<no osr_id>"

\* the key name is not in the config dict
NoKey == "<no key>"

\* config.get("osr_id", os.environ.get("OSR_ID", ""))
resolve_osr(config, env) == IF config.osr_id = NoOsrId THEN env ELSE config.osr_id

\* what Config.load gives where there is no store, or a store that is not a JSON
\* document: DEFAULT_ORDER_VALUES.copy(), with first_run True, the name "src", the
\* server type Live, no custom elements and no osr_id
first_run_store ==
    [first_run |-> TRUE, name |-> "src", server_type |-> LIVE, osr_id |-> NoOsrId,
     sandbox_custom_elements |-> <<>>, orders |-> DEFAULT_ORDER_VALUES]

\* what Config.load gives for a store written after the first run: run has set
\* first_run to False, _intro_menu the name and the server type, one of SERVER_TYPES,
\* and configure_osr_id an OSR id or none
load ==
    [first_run : {FALSE}, name : {"src"}, server_type : {LIVE, TEST},
     osr_id : {NoOsrId, "osr1"}, sandbox_custom_elements : {<<>>},
     orders : {DEFAULT_ORDER_VALUES}]

\* what a call of Config.save, or of History.save, can do: write the document; fail
\* at open, the store untouched; or fail in json.dump after open(..., "w") has emptied
\* the store
SaveOutcomes == {"written", "open failed", "dump failed"}

\* Config.save(config) on the store: the store it leaves and the exception it raises
save(cfg, store, outcome) ==
    CASE outcome = "written" -> [store |-> cfg, error |-> ""]
      [] outcome = "open failed" -> [store |-> store, error |-> "ConfigurationError"]
      [] outcome = "dump failed" ->
            [store |-> first_run_store, error |-> "ConfigurationError"]

\* isinstance(values, list) for the stored value of a mode
IsListMode(m) == m \in {PICK_STANDARD, PICK_MANUAL, TRANSPORT}

PickModes == {PICK_STANDARD, PICK_MANUAL}

\* values["name"] = config.get("name", "SRC"), on every record of a list
SetName(values, m, name) ==
    IF IsListMode(m)
    THEN [i \in DOMAIN values |-> DictSet(values[i], "name", name)]
    ELSE DictSet(values, "name", name)

\* the options of the top menu
modes == ORDER_TYPES \o <<"View Order History", "Cancel Orders", "Configure OSR ID",
                           "Configure Server Type">>

(***************************************************************************)
(* ui/utils.py                                                             *)
(***************************************************************************)
\* seq[:stop] of Python: a negative stop counts from the end
PyPrefix(seq, stop) ==
    LET k == IF stop < 0 THEN Len(seq) + stop ELSE stop
    IN  IF k <= 0 THEN <<>> ELSE IF k >= Len(seq) THEN seq ELSE SubSeq(seq, 1, k)

\* the suffix parameter of truncate_text, "..."
suffix == <<".", ".", ".">>

\* truncate_text(text, max_width, suffix="..."); a str is the sequence of its characters
truncate_text(t, w) ==
    IF Len(t) <= w THEN t ELSE PyPrefix(t, w - Len(suffix)) \o suffix

\* get_screen_size: max(height, 10), max(width, 40) of stdscr.getmaxyx()
get_screen_size(s) ==
    <<IF s[1] > 10 THEN s[1] ELSE 10, IF s[2] > 40 THEN s[2] ELSE 40>>

\* every stdscr.addstr of draw_border(stdscr, b.y, b.x, b.height, b.width) starts on a
\* cell of the terminal and does not write its bottom right cell
draw_border(b, s) ==
    /\ 0 <= b.y /\ b.y + b.height <= s[1]
    /\ 0 <= b.x /\ b.x + b.width <= s[2]
    /\ ~(b.y + b.height = s[1] /\ b.x + b.width = s[2])

\* show_status(stdscr, message, status_type): the exception it raises, "" if none.
\* stdscr.move(height - 1, 0) takes height from get_screen_size and fails on a terminal
\* of fewer than 10 rows; icon_map then reads Symbols.BULLET, CHECK, CROSS and WARNING,
\* whatever the status type is
show_status(s) ==
    IF get_screen_size(s)[1] - 1 >= s[1]
    THEN "curses.error"
    ELSE Read({"BULLET", "CHECK", "CROSS", "WARNING"})

(***************************************************************************)
(* The boxes ui/dialog.py, ui/menu.py, ui/form.py and                      *)
(* controllers/order_controller.py compute from the terminal size and the  *)
(* content and pass to draw_border.                                        *)
(***************************************************************************)
\* display_dialog: lines = message.split("\n"), max_line_length the longest of them
display_dialog_box(n, max_line_length, height, width) ==
    LET message_width == Min(width - 10, Max(max_line_length + 10, 50))
        message_height == n + 8
    IN  [y |-> (height - message_height) \div 2, x |-> (width - message_width) \div 2,
         height |-> message_height, width |-> message_width]

\* display_menu: extra_width is 6 with allow_multiple, otherwise 0
display_menu_box(n, max_option_len, extra_width, height, width) ==
    LET box_width == Min(width - 6, Max(70, max_option_len + 15 + extra_width))
        box_height == Min(height - 4, n + 8)
    IN  [y |-> (height - box_height) \div 2, x |-> (width - box_width) \div 2,
         height |-> box_height, width |-> box_width]

\* edit_form
edit_form_box(n, content_width, height, width) ==
    LET box_width == Min(width - 6, Max(70, content_width))
        box_height == Min(height - 4, n + 12)
    IN  [y |-> (height - box_height) \div 2, x |-> (width - box_width) \div 2,
         height |-> box_height, width |-> box_width]

\* edit_pick_lines (widest == 100) and edit_transport_lines (widest == 110)
edit_lines_box(n, min_width, height, width, widest) ==
    LET box_width == Min(width - 6, Max(min_width, widest))
        box_height == Min(height - 4, n + 12)
    IN  [y |-> (height - box_height) \div 2, x |-> (width - box_width) \div 2,
         height |-> box_height, width |-> box_width]

\* the box a component computes for n lines / options / fields of width w on the
\* terminal s
Box(component, n, w, multiple, s) ==
    LET size == get_screen_size(s)
        height == size[1]
        width == size[2]
    IN  CASE component = "Dialog" -> display_dialog_box(n, w, height, width)
          [] component = "Menu" ->
                display_menu_box(n, IF n = 0 THEN 20 ELSE w, IF multiple THEN 6 ELSE 0,
                                 height, width)
          [] component = "Form" -> edit_form_box(n, w, height, width)
          [] component = "Lines" -> edit_lines_box(n, w, height, width, 100)
          [] component = "Slots" -> edit_lines_box(n, w, height, width, 110)

(***************************************************************************)
(* The components up to their first read of a key: the exception that      *)
(* leaves them before it, "" when they get to the read.  draw_border is    *)
(* called outside any try in each of them.                                 *)
(***************************************************************************)
\* display_dialog with a message of n lines: draw_border, then getch
display_dialog_draw(n, w, s) ==
    IF draw_border(Box("Dialog", n, w, FALSE, s), s) THEN "" ELSE "curses.error"

\* display_menu with n options: draw_border, the options, then show_status
display_menu(n, w, multiple, s) ==
    IF draw_border(Box("Menu", n, w, multiple, s), s) THEN show_status(s) ELSE "curses.error"

\* edit_form with n fields: draw_border, the fields, then
\* show_status(stdscr, f"Editing field: {fields[current_row]}", "info") with
\* current_row = 0, whose argument is evaluated first
edit_form(n, w, s) ==
    IF ~draw_border(Box("Form", n, w, FALSE, s), s)
    THEN "curses.error"
    ELSE IF n = 0 THEN "IndexError" ELSE show_status(s)

\* edit_pick_lines with n lines: draw_border, the lines, then getch
edit_pick_lines(n, w, s) ==
    IF draw_border(Box("Lines", n, w, FALSE, s), s) THEN "" ELSE "curses.error"

\* edit_transport_lines with n slots: draw_border, the slots, then show_status
edit_transport_lines(n, w, s) ==
    IF draw_border(Box("Slots", n, w, FALSE, s), s) THEN show_status(s) ELSE "curses.error"

\* _show_xml_confirmation_dialog: the title passed to draw_border reads Symbols.CONFIRM
_show_xml_confirmation_dialog == Read({"CONFIRM"})

\* configure_osr_id: the title passed to draw_border reads Symbols.SETTINGS
configure_osr_id_draw == Read({"SETTINGS"})

\* view_order_history_menu with orders to list: the navigation options read
\* Symbols.BACK and Symbols.REFRESH
view_order_history_options == Read({"BACK", "REFRESH"})

\* cancel_orders_menu with orders to list: the title and the instructions passed to
\* display_menu read Symbols.WARNING and Symbols.KEY
cancel_orders_title == Read({"WARNING", "KEY"})

(***************************************************************************)
(* The field lists the Forms are opened with.                              *)
(***************************************************************************)
\* list(line) for a line of a pick mode as edit_pick_lines holds it: the keys of the
\* literal of DEFAULT_ORDER_VALUES in their order, then name, which
\* _handle_order_creation stores last (main_controller.py:200-202)
line_keys(m) ==
    IF m = PICK_STANDARD
    THEN <<"Order Number", "Container / Tray Number", "Quantity", "Product Code",
           "Product Name", "name">>
    ELSE <<"Order Number", "Quantity", "Product Code", "Product Name", "name">>

\* _edit_single_line: the schema fields the line has, then the other keys of the line
\* in the order the dict holds them; line is list(line), the keys in that order
_edit_single_line_fields(line, m) ==
    LET fields == SelectSeq(FIELD_ORDER[m], LAMBDA f : f \in Range(line))
    IN  fields \o SelectSeq(line, LAMBDA f : f \notin Range(fields))

\* _edit_order(stdscr, mode, values) up to the first read of a key.  The default
\* list(values.keys()) is evaluated before FIELD_ORDER.get is called: on the list a
\* multi-record mode stores it raises AttributeError
_edit_order(m, s) ==
    IF IsListMode(m)
    THEN "AttributeError"
    ELSE edit_form(Len(FIELD_ORDER[m]), 0, s)

(***************************************************************************)
(* controllers/order_controller.py: add and delete of edit_pick_lines.     *)
(***************************************************************************)
\* the list after 'a': a copy of the last record is appended
pick_add(ls, m) ==
    Append(ls, IF Len(ls) > 0 THEN ls[Len(ls)] ELSE DEFAULT_ORDER_VALUES[m][1])

\* 'd' without the check of len(lines) > 1
pick_delete_unchecked(ls, i) == SubSeq(ls, 1, i) \o SubSeq(ls, i + 2, Len(ls))

\* the list after 'd': the active record is removed unless it is the only one
pick_delete(ls, i) ==
    IF Len(ls) > 1 THEN SubSeq(ls, 1, i) \o SubSeq(ls, i + 2, Len(ls)) ELSE ls

\* the active index left one lower after a delete, also below zero
idx_after_delete_unclamped(i) == i - 1

\* idx = max(0, idx - 1) after a delete
idx_after_delete(i) == Max(0, i - 1)

(***************************************************************************)
(* ui/dialog.py: the yes/no loop of display_dialog.                        *)
(***************************************************************************)
\* a yes/no dialog in which Enter confirms
show_yes_no_enter_confirms(key) ==
    CASE key \in {"y", "Y", "ENTER"} -> "True"
      [] key \in {"n", "N", "ESC"} -> "False"
      [] OTHER -> ""

\* what the loop of the yes/no dialog returns on a key, "" when it reads the next key
show_yes_no(key) ==
    CASE key \in {"y", "Y"} -> "True"
      [] key \in {"n", "N", "ESC"} -> "False"
      [] OTHER -> ""

(***************************************************************************)
(* utils/cli_tools.py: the one-shot cleanup.  The store is a JSON          *)
(* document: an array or an object.                                        *)
(***************************************************************************)
\* json.dump(orders, f) of History.save: the document is the array of the records
Array(items) == [array |-> items]

\* a JSON object with the given keys
Object(members) == [object |-> members]

\* History.load: json.load(f) of the document; [] for a file that is not one
json_load(store) ==
    IF "array" \in DOMAIN store
    THEN store.array
    ELSE IF "object" \in DOMAIN store THEN store.object ELSE <<>>

\* cleanup_history("all") on a store that exists: what it returns and the store it
\* leaves.  history.get("orders", []) needs an object; on an array it raises
\* AttributeError, and on a file that is not a JSON document json.load raises
\* JSONDecodeError: except Exception turns both into the return value False
cleanup_history(store) ==
    IF "object" \in DOMAIN store
    THEN IF "orders" \notin DOMAIN store.object \/ Len(store.object.orders) = 0
         THEN [returned |-> TRUE, store |-> store]
         ELSE [returned |-> TRUE,
               store |-> Object([store.object EXCEPT !.orders = <<>>])]
    ELSE [returned |-> FALSE, store |-> store]

(***************************************************************************)
(* The state.                                                              *)
(***************************************************************************)
VARIABLES
    pc,             \* where control is: "Call" before the function is called, the
                    \* screen that waits for a key, "Returned", "Exited" or "Crashed"
    ev,             \* <<what the last step ran, the key it read>>
    exc,            \* the exception that left the function called, "" if none
    dry_run,        \* MainController.dry_run (--dry-run)
    env_osr,        \* os.environ["OSR_ID"], "" if unset
    argv,           \* "--dry-run" in sys.argv, as _confirm_and_cancel_orders reads it
    config,         \* the config dict the controller holds
    config_file,    \* the configuration store (.orders_config.json) as load reads it
    history,        \* the records History.load reads from the history store
                    \* (.orders_history.json)
    history_file,   \* what that file is: "absent", "array" or "not JSON"
    io_errors,      \* the IOErrors History.save has swallowed
    sent,           \* the payloads transmitted to the warehouse controller
    sandbox,        \* SandboxController.handle_post_order has been called
    selected_mode,  \* the order mode (selected_mode / mode)
    lines,          \* the RecordSet of the line editor (its parameter lines)
    idx,            \* the active index of the line editor
    xml,            \* the payload built (xml / xml_content)
    dialog,         \* <<message_type, title>> of the dialog on screen, <<>> if none
    after,          \* where control continues when the dialog or the editor ends
    result,         \* what the function called on its own returned, "" before
    keys,           \* the keys read so far
    feed,           \* the keys and lines the terminal delivers, in order
    options,        \* len(options) of display_menu
    allow_multiple, \* its parameter allow_multiple
    fields,         \* the field list passed to edit_form, <<>> before
    values,         \* the Record passed to edit_form or to the lookup; for a pick
                    \* order the stored list (values of _handle_order_creation)
    field,          \* the field parameter of _handle_database_lookup
    current_row,    \* the highlight of display_menu / edit_form
    products,       \* the rows the database holds for the lookup
    orders,         \* the orders local of the cancel flow
    selected,       \* selected_indices of _confirm_and_cancel_orders
    cancels,        \* the orders passed to OrderCanceller.cancel_order
    text,           \* the text passed to truncate_text
    max_width,      \* the max_width passed to it
    truncated,      \* what truncate_text returned
    screen,         \* <<rows, columns>> of the terminal (stdscr.getmaxyx())
    content,        \* <<component, number of lines, width>> of what a component
                    \* whose box is computed on its own draws, <<>> otherwise
    box             \* [y, x, height, width] of the box passed to draw_border, <<>>
                    \* before

\* the arguments of the call and the environment: no step changes them
inputs == <<dry_run, env_osr, argv, feed, selected_mode, options, allow_multiple, field,
            products, text, max_width, screen, content>>

stores == <<config, config_file, history, history_file, io_errors, sent, sandbox>>

editor == <<lines, idx>>

form == <<fields, values, current_row>>

cancel == <<orders, selected, cancels>>

vars == <<pc, ev, exc, xml, dialog, after, result, keys, truncated, box,
          inputs, stores, editor, form, cancel>>

(***************************************************************************)
(* Reading the keyboard, raising, and showing a dialog.                    *)
(***************************************************************************)
\* the key the next stdscr.getch() (or the line the next getstr) returns
key == feed[Len(keys) + 1]

\* stdscr.getch(): the terminal has a key to deliver, and it is read
getch ==
    /\ Len(keys) < Len(feed)
    /\ keys' = Append(keys, key)

\* the exception e leaves the function called
Crash(e) ==
    /\ pc' = "Crashed"
    /\ exc' = e

\* display_dialog(stdscr, message, title, message_type) waits for a key; next names
\* where control continues after it.  On the terminal of 24 rows the box of the
\* messages the controllers show fits
display_dialog(message_type, title, next) ==
    /\ pc' = "Dialog"
    /\ dialog' = <<message_type, title>>
    /\ after' = next

\* any key dismisses the dialog; control continues where the caller of display_dialog
\* goes on
dialog_dismiss ==
    /\ pc = "Dialog"
    /\ after # "handle_post_order"
    /\ getch
    /\ ev' = <<"dialog_dismiss", key>>
    /\ pc' = after
    /\ dialog' = <<>>
    /\ after' = ""
    /\ UNCHANGED <<exc, xml, result, truncated, box, inputs, stores, editor, form, cancel>>

\* one key of the while loop of the yes/no dialog.  Called by
\* _handle_database_lookup, a yes continues with configure_osr_id and a no with
\* show_status, both inside the try of the lookup, whose handler calls show_status:
\* what show_status raises there leaves the lookup
display_dialog_key ==
    /\ pc = "YesNoDialog"
    /\ getch
    /\ ev' = <<"display_dialog_key", key>>
    /\ IF show_yes_no(key) = ""
       THEN UNCHANGED <<pc, exc, result>>
       ELSE IF after = "_handle_database_lookup"
            THEN /\ IF show_yes_no(key) = "True" /\ configure_osr_id_draw = ""
                    THEN pc' = "OsrPrompt" /\ UNCHANGED exc
                    ELSE IF show_status(screen) = ""
                         THEN pc' = "Returned" /\ UNCHANGED exc
                         ELSE Crash(show_status(screen))
                 /\ UNCHANGED result
            ELSE /\ pc' = "Returned"
                 /\ result' = show_yes_no(key)
                 /\ UNCHANGED exc
    /\ UNCHANGED <<xml, dialog, after, truncated, box, inputs, stores, editor, form,
                   cancel>>

(***************************************************************************)
(* controllers/main_controller.py: run and _intro_menu.                    *)
(***************************************************************************)
\* run up to the first read: on a first run prompt_input asks for the name; otherwise
\* _display_main_menu displays the top menu
run ==
    /\ pc = "Start"
    /\ ev' = <<"run", "">>
    /\ IF config.first_run
       THEN pc' = "IntroName" /\ UNCHANGED exc
       ELSE LET e == display_menu(Len(modes), 21, FALSE, screen)
            IN  IF e = "" THEN pc' = "TopMenu" /\ UNCHANGED exc ELSE Crash(e)
    /\ UNCHANGED <<xml, dialog, after, result, keys, truncated, box, inputs, stores,
                   editor, form, cancel>>

\* _intro_menu from the name typed: config["name"] is set, then display_menu shows the
\* server types
_intro_menu ==
    /\ pc = "IntroName"
    /\ getch
    /\ ev' = <<"_intro_menu", key>>
    /\ LET name == Join(strip_text(key))
       IN  config' = [config EXCEPT !.name = IF name # "" THEN name ELSE "src"]
    /\ LET e == display_menu(Len(SERVER_TYPES), 4, FALSE, screen)
       IN  IF e = "" THEN pc' = "ServerMenu" /\ UNCHANGED exc ELSE Crash(e)
    /\ UNCHANGED <<xml, dialog, after, result, truncated, box, inputs, config_file,
                   history, history_file, io_errors, sent, sandbox, editor, form, cancel>>

(***************************************************************************)
(* controllers/main_controller.py: _confirm_and_send_order and             *)
(* _send_order.                                                            *)
(***************************************************************************)
\* the payload offered for confirmation without the test for None / empty
_confirm_and_send_order_unvalidated(xml_content) ==
    /\ IF _show_xml_confirmation_dialog = ""
       THEN pc' = "Confirming" /\ UNCHANGED exc
       ELSE Crash(_show_xml_confirmation_dialog)
    /\ UNCHANGED <<dialog, after>>

\* _confirm_and_send_order up to the key read of the confirmation screen
_confirm_and_send_order(xml_content) ==
    IF xml_content = NoXml \/ strip(xml_content) = NoXml
    THEN /\ display_dialog("error", "Error", "TopMenu")
         /\ UNCHANGED exc
    ELSE /\ IF _show_xml_confirmation_dialog = ""
            THEN pc' = "Confirming" /\ UNCHANGED exc
            ELSE Crash(_show_xml_confirmation_dialog)
         /\ UNCHANGED <<dialog, after>>

\* the call of _confirm_and_send_order on the payload
_confirm_and_send_order_call ==
    /\ pc = "Built"
    /\ ev' = <<"_confirm_and_send_order", "">>
    /\ _confirm_and_send_order(xml)
    /\ UNCHANGED <<xml, result, keys, truncated, box, inputs, stores, editor, form,
                   cancel>>

\* _send_order without an OSR id in the config or the environment
_send_order_no_osr ==
    /\ pc = "Call"
    /\ resolve_osr(config, env_osr) = ""
    /\ ev' = <<"_send_order", "">>
    /\ display_dialog("error", "Configuration Error", "Returned")
    /\ UNCHANGED <<exc, xml, result, keys, truncated, box, inputs, stores, editor, form,
                   cancel>>

\* a _send_order that records the order before it transmits it
_send_order_recorded_then_failed ==
    /\ pc = "Call"
    /\ resolve_osr(config, env_osr) # ""
    /\ strip(xml) = NoXml \/ ~dry_run
    /\ ev' = <<"_send_order", "">>
    /\ LET store == add_order([file |-> history_file, orders |-> history],
                              extract_order_id_from_xml(xml), get_order_type_from_xml(xml),
                              resolve_osr(config, env_osr), "sent", "written")
       IN  history' = store.orders /\ history_file' = store.file
    /\ UNCHANGED io_errors
    /\ display_dialog("error", "Error", "Returned")
    /\ UNCHANGED <<exc, xml, result, keys, truncated, box, inputs, config, config_file,
                   sent, sandbox, editor, form, cancel>>

\* _send_order when OrderSender.send raises: OrderValidationError on an empty payload,
\* ORBConnectionError when the CORBA libraries are missing or the transmission fails
\* (not in a dry run, where send returns before it).  except Exception shows the
\* error dialog
_send_order_failed ==
    /\ pc = "Call"
    /\ resolve_osr(config, env_osr) # ""
    /\ strip(xml) = NoXml \/ ~dry_run
    /\ ev' = <<"_send_order", "">>
    /\ display_dialog("error", "Error", "Returned")
    /\ UNCHANGED <<exc, xml, result, keys, truncated, box, inputs, stores, editor, form,
                   cancel>>

\* a _send_order that calls the sandbox sub-flow whatever the server type is
_send_order_sent_any_server ==
    /\ pc = "Call"
    /\ resolve_osr(config, env_osr) # ""
    /\ strip(xml) # NoXml
    /\ sent' = IF dry_run THEN sent ELSE Append(sent, xml)
    /\ \E outcome \in SaveOutcomes :
          /\ outcome # "written" => io_errors < MaxIOErrors
          /\ ev' = <<"add_order", outcome>>
          /\ io_errors' = IF outcome = "written" THEN io_errors ELSE io_errors + 1
          /\ LET store == add_order([file |-> history_file, orders |-> history],
                                    extract_order_id_from_xml(xml),
                                    get_order_type_from_xml(xml),
                                    resolve_osr(config, env_osr),
                                    IF dry_run THEN "dry_run" ELSE "sent", outcome)
             IN  history' = store.orders /\ history_file' = store.file
    /\ display_dialog("success", "Success", "handle_post_order")
    /\ UNCHANGED <<exc, xml, result, keys, truncated, box, inputs, config, config_file,
                   sandbox, editor, form, cancel>>

\* _send_order when send returns (in a dry run, or when the warehouse controller has
\* taken the order): History.add_order records the order, the Success dialog waits
\* for a key, and on a Test server the sandbox sub-flow follows it
_send_order_sent ==
    /\ pc = "Call"
    /\ resolve_osr(config, env_osr) # ""
    /\ strip(xml) # NoXml
    /\ sent' = IF dry_run THEN sent ELSE Append(sent, xml)
    /\ \E outcome \in SaveOutcomes :
          /\ outcome # "written" => io_errors < MaxIOErrors
          /\ ev' = <<"add_order", outcome>>
          /\ io_errors' = IF outcome = "written" THEN io_errors ELSE io_errors + 1
          /\ LET store == add_order([file |-> history_file, orders |-> history],
                                    extract_order_id_from_xml(xml),
                                    get_order_type_from_xml(xml),
                                    resolve_osr(config, env_osr),
                                    IF dry_run THEN "dry_run" ELSE "sent", outcome)
             IN  history' = store.orders /\ history_file' = store.file
    /\ display_dialog("success", "Success",
                      IF config.server_type = TEST THEN "handle_post_order" ELSE "Returned")
    /\ UNCHANGED <<exc, xml, result, keys, truncated, box, inputs, config, config_file,
                   sandbox, editor, form, cancel>>

\* the key that dismisses the Success dialog on a Test server: handle_post_order is
\* called inside the try of _send_order; its first screen is a display_menu of five
\* options, and what that raises is caught by except Exception, which shows the
\* error dialog
handle_post_order ==
    /\ pc = "Dialog"
    /\ after = "handle_post_order"
    /\ getch
    /\ ev' = <<"handle_post_order", key>>
    /\ sandbox' = TRUE
    /\ IF display_menu(5, 38, FALSE, screen) = ""
       THEN pc' = "SandboxMenu" /\ dialog' = <<>> /\ after' = ""
       ELSE display_dialog("error", "Error", "Returned")
    /\ UNCHANGED <<exc, xml, result, truncated, box, inputs, config, config_file, history, history_file, io_errors,
                   sent, editor, form, cancel>>

(***************************************************************************)
(* controllers/main_controller.py: _handle_order_creation.                 *)
(***************************************************************************)
\* the branch `if send_now:` with the store written only once the payload is built
send_now_save_last(outcome) ==
    LET cfg == [config EXCEPT !.orders[selected_mode] = lines]
        built == generate(selected_mode, values, lines, cfg)
        saved == save(cfg, config_file, outcome)
    IN  /\ config' = cfg
        /\ config_file' = saved.store
        /\ IF ~built.ok
           THEN Crash("OrderValidationError") /\ UNCHANGED <<xml, dialog, after>>
           ELSE /\ xml' = built.xml
                /\ IF saved.error # ""
                   THEN Crash(saved.error) /\ UNCHANGED <<dialog, after>>
                   ELSE _confirm_and_send_order(built.xml)

\* the branch `if send_now:` of a pick order: config[selected_mode] = lines, the store
\* is saved, the payload is built from values, the list the editor was not given to
\* change, and offered for confirmation.  None of the calls is inside a try
send_now(outcome) ==
    LET cfg == [config EXCEPT !.orders[selected_mode] = lines]
        saved == save(cfg, config_file, outcome)
        built == generate(selected_mode, values, lines, cfg)
    IN  /\ config' = cfg
        /\ config_file' = saved.store
        /\ IF saved.error # ""
           THEN Crash(saved.error) /\ UNCHANGED <<xml, dialog, after>>
           ELSE IF ~built.ok
                THEN Crash("OrderValidationError") /\ UNCHANGED <<xml, dialog, after>>
                ELSE /\ xml' = built.xml
                     /\ _confirm_and_send_order(built.xml)

\* _handle_order_creation(stdscr, config, selected_mode) up to the first read of a
\* key: the name is put into the stored record(s); a pick order opens edit_pick_lines
\* on a copy of the stored list, every other mode, Transport among them, _edit_order
_handle_order_creation ==
    /\ pc = "Call"
    /\ ev' = <<"_handle_order_creation", "">>
    /\ LET name == IF config.name = NoKey THEN "SRC" ELSE config.name
           named == SetName(config.orders[selected_mode], selected_mode, name)
       IN  /\ config' = [config EXCEPT !.orders[selected_mode] = named]
           /\ values' = named
           /\ IF selected_mode \in PickModes
              THEN /\ lines' = named
                   /\ idx' = 0
                   /\ UNCHANGED fields
                   /\ LET e == edit_pick_lines(Len(named), 0, screen)
                      IN  IF e = ""
                          THEN /\ pc' = "Lines"
                               /\ after' = "_handle_order_creation"
                               /\ UNCHANGED exc
                          ELSE Crash(e) /\ UNCHANGED after
              ELSE /\ fields' = IF IsListMode(selected_mode)
                                THEN fields
                                ELSE FIELD_ORDER[selected_mode]
                   /\ UNCHANGED <<lines, idx, after>>
                   /\ LET e == _edit_order(selected_mode, screen)
                      IN  IF e = "" THEN pc' = "Form" /\ UNCHANGED exc ELSE Crash(e)
    /\ UNCHANGED <<xml, dialog, result, keys, truncated, box, inputs, config_file, history, history_file, io_errors,
                   sent, sandbox, current_row, cancel>>

(***************************************************************************)
(* controllers/order_controller.py: edit_pick_lines and                    *)
(* edit_transport_lines.                                                   *)
(***************************************************************************)
\* edit_pick_lines(stdscr, mode, lines, values) called on its own, up to the first
\* read of a key
edit_pick_lines_call ==
    /\ pc = "Call"
    /\ selected_mode \in PickModes
    /\ ev' = <<"edit_pick_lines", "">>
    /\ idx' = 0
    /\ LET e == edit_pick_lines(Len(lines), 0, screen)
       IN  IF e = "" THEN pc' = "Lines" /\ UNCHANGED exc ELSE Crash(e)
    /\ UNCHANGED <<xml, dialog, after, result, keys, truncated, box, inputs, stores, lines,
                   form, cancel>>

\* edit_transport_lines(stdscr, lines) called on its own, up to the first read of a key
edit_transport_lines_call ==
    /\ pc = "Call"
    /\ selected_mode = TRANSPORT
    /\ ev' = <<"edit_transport_lines", "">>
    /\ idx' = 0
    /\ LET e == edit_transport_lines(Len(lines), 0, screen)
       IN  IF e = "" THEN pc' = "Slots" /\ UNCHANGED exc ELSE Crash(e)
    /\ UNCHANGED <<xml, dialog, after, result, keys, truncated, box, inputs, stores, lines,
                   form, cancel>>

\* Up / Down (or k / j) in the line list; at the first and the last record the key
\* falls through to the other branches, none of which takes it
edit_pick_lines_move ==
    /\ pc = "Lines"
    /\ getch
    /\ key \in {"UP", "DOWN", "k", "j"}
    /\ ev' = <<"edit_pick_lines_move", key>>
    /\ idx' = IF key \in {"UP", "k"} /\ idx > 0
              THEN idx - 1
              ELSE IF key \in {"DOWN", "j"} /\ idx < Len(lines) - 1
                   THEN idx + 1
                   ELSE idx
    /\ UNCHANGED <<pc, exc, xml, dialog, after, result, truncated, box, inputs, stores,
                   lines, form, cancel>>

\* 'a': the copy of the last record is appended and made active, then show_status
edit_pick_lines_add ==
    /\ pc = "Lines"
    /\ getch
    /\ key \in {"a", "A"}
    /\ ev' = <<"edit_pick_lines_add", key>>
    /\ lines' = pick_add(lines, selected_mode)
    /\ idx' = Len(lines') - 1
    /\ LET e == show_status(screen)
       IN  IF e = "" THEN UNCHANGED <<pc, exc>> ELSE Crash(e)
    /\ UNCHANGED <<xml, dialog, after, result, truncated, box, inputs, stores, form,
                   cancel>>

\* 'd': the active record is removed if it is not the only one, then show_status, with
\* a warning or with an error
edit_pick_lines_delete ==
    /\ pc = "Lines"
    /\ getch
    /\ key \in {"d", "D"}
    /\ ev' = <<"edit_pick_lines_delete", key>>
    /\ lines' = pick_delete(lines, idx)
    /\ idx' = IF Len(lines) > 1 THEN idx_after_delete(idx) ELSE idx
    /\ LET e == show_status(screen)
       IN  IF e = "" THEN UNCHANGED <<pc, exc>> ELSE Crash(e)
    /\ UNCHANGED <<xml, dialog, after, result, truncated, box, inputs, stores, form,
                   cancel>>

\* Enter: _edit_single_line opens the Form on the active record
edit_pick_lines_enter ==
    /\ pc = "Lines"
    /\ getch
    /\ key \in {"ENTER", "l"}
    /\ ev' = <<"_edit_single_line", key>>
    /\ fields' = _edit_single_line_fields(line_keys(selected_mode), selected_mode)
    /\ LET e == edit_form(Len(fields'), 0, screen)
       IN  IF e = "" THEN pc' = "Form" /\ UNCHANGED exc ELSE Crash(e)
    /\ UNCHANGED <<xml, dialog, after, result, truncated, box, inputs, stores, editor,
                   values, current_row, cancel>>

\* 's': the editor returns True; in _handle_order_creation the branch `if send_now:`
\* follows
edit_pick_lines_send ==
    /\ pc = "Lines"
    /\ getch
    /\ key \in {"s", "S"}
    /\ ev' = <<"edit_pick_lines_send", key>>
    /\ IF after = "_handle_order_creation"
       THEN /\ \E outcome \in SaveOutcomes : send_now(outcome)
            /\ UNCHANGED result
       ELSE /\ pc' = "Returned"
            /\ result' = "True"
            /\ UNCHANGED <<exc, xml, dialog, after, config, config_file>>
    /\ UNCHANGED <<truncated, box, inputs, history, history_file, io_errors, sent, sandbox, editor, form, cancel>>

\* 'h' / 'b' / 'B': the editor returns False, and _handle_order_creation returns
edit_pick_lines_back ==
    /\ pc = "Lines"
    /\ getch
    /\ key \in {"h", "b", "B"}
    /\ ev' = <<"edit_pick_lines_back", key>>
    /\ pc' = "Returned"
    /\ result' = IF after = "_handle_order_creation" THEN "None" ELSE "False"
    /\ UNCHANGED <<exc, xml, dialog, after, truncated, box, inputs, stores, editor, form,
                   cancel>>

\* any other key: the loop draws the list again and reads the next key
edit_pick_lines_other ==
    /\ pc = "Lines"
    /\ getch
    /\ key \notin {"UP", "DOWN", "k", "j", "a", "A", "d", "D", "ENTER", "l", "s", "S",
                   "h", "b", "B"}
    /\ ev' = <<"edit_pick_lines_other", key>>
    /\ UNCHANGED <<pc, exc, xml, dialog, after, result, truncated, box, inputs, stores,
                   editor, form, cancel>>

(***************************************************************************)
(* The Forms called on their own: _edit_order, _edit_single_line and       *)
(* _edit_transport_slot, up to the first read of a key.                    *)
(***************************************************************************)
_edit_order_call ==
    /\ pc = "Call"
    /\ ~IsListMode(selected_mode)
    /\ ev' = <<"_edit_order", "">>
    /\ fields' = FIELD_ORDER[selected_mode]
    /\ LET e == _edit_order(selected_mode, screen)
       IN  IF e = "" THEN pc' = "Form" /\ UNCHANGED exc ELSE Crash(e)
    /\ UNCHANGED <<xml, dialog, after, result, keys, truncated, box, inputs, stores, editor,
                   values, current_row, cancel>>

_edit_single_line ==
    /\ pc = "Call"
    /\ selected_mode \in PickModes
    /\ ev' = <<"_edit_single_line", "">>
    /\ fields' = _edit_single_line_fields(line_keys(selected_mode), selected_mode)
    /\ LET e == edit_form(Len(fields'), 0, screen)
       IN  IF e = "" THEN pc' = "Form" /\ UNCHANGED exc ELSE Crash(e)
    /\ UNCHANGED <<xml, dialog, after, result, keys, truncated, box, inputs, stores, editor,
                   values, current_row, cancel>>

_edit_transport_slot ==
    /\ pc = "Call"
    /\ selected_mode = TRANSPORT
    /\ ev' = <<"_edit_transport_slot", "">>
    /\ fields' = FIELD_ORDER[TRANSPORT]
    /\ LET e == edit_form(Len(fields'), 0, screen)
       IN  IF e = "" THEN pc' = "Form" /\ UNCHANGED exc ELSE Crash(e)
    /\ UNCHANGED <<xml, dialog, after, result, keys, truncated, box, inputs, stores, editor,
                   values, current_row, cancel>>

(***************************************************************************)
(* ui/form.py: _handle_database_lookup and                                 *)
(* _handle_processing_mode_selection.                                      *)
(***************************************************************************)
\* _handle_processing_mode_selection(stdscr, values) up to the display of its menu:
\* an empty Processing Mode is set to "standard"
_handle_processing_mode_selection(vals) ==
    IF "Processing Mode" \in DOMAIN vals /\ vals["Processing Mode"] = ""
    THEN DictSet(vals, "Processing Mode", "standard")
    ELSE vals

\* _handle_database_lookup(stdscr, field, values) up to the first read of a key.
\* Processing Mode goes to the selection menu, outside the try.  The other fields
\* load the store: without an OSR id the yes/no dialog asks whether to configure one.
\* With one, Container Type fails on db.get_container_types, which Database does not
\* have; Product Code / Name show the menu of the products the database returns, or
\* fail to connect; the other fields have no lookup.  Each of these branches ends in
\* show_status or in display_menu inside a try whose handler calls show_status, so
\* what show_status raises leaves the function
_handle_database_lookup ==
    /\ pc = "Call"
    /\ ev' = <<"_handle_database_lookup", "">>
    /\ IF field = "Processing Mode"
       THEN /\ values' = _handle_processing_mode_selection(values)
            /\ LET e == display_menu(Len(TRANSPORT_PROCESSING_MODES), 40, FALSE, screen)
               IN  IF e = "" THEN pc' = "Menu" /\ UNCHANGED exc ELSE Crash(e)
            /\ UNCHANGED <<dialog, after>>
       ELSE /\ UNCHANGED values
            /\ IF resolve_osr(config_file, env_osr) = ""
               THEN /\ pc' = "YesNoDialog"
                    /\ dialog' = <<"question", "Configuration Required">>
                    /\ after' = "_handle_database_lookup"
                    /\ UNCHANGED exc
               ELSE /\ IF show_status(screen) # ""
                       THEN Crash(show_status(screen))
                       ELSE IF /\ field \in {"Product Code", "Product Name"}
                               /\ products # <<>>
                               /\ display_menu(Len(products), 40, FALSE, screen) = ""
                            THEN pc' = "Menu" /\ UNCHANGED exc
                            ELSE pc' = "Returned" /\ UNCHANGED exc
                    /\ UNCHANGED <<dialog, after>>
    /\ UNCHANGED <<xml, result, keys, truncated, box, inputs, stores, editor, fields,
                   current_row, cancel>>

(***************************************************************************)
(* ui/menu.py: display_menu called on its own.                             *)
(***************************************************************************)
display_menu_call ==
    /\ pc = "Call"
    /\ ev' = <<"display_menu", "">>
    /\ LET e == display_menu(options, 0, allow_multiple, screen)
       IN  IF e = "" THEN pc' = "Menu" /\ UNCHANGED exc ELSE Crash(e)
    /\ UNCHANGED <<xml, dialog, after, result, keys, truncated, box, inputs, stores, editor,
                   form, cancel>>

(***************************************************************************)
(* ui/utils.py: truncate_text called on its own.                           *)
(***************************************************************************)
truncate_text_call ==
    /\ pc = "Call"
    /\ truncated' = truncate_text(text, max_width)
    /\ pc' = "Returned"
    /\ ev' = <<"truncate_text", "">>
    /\ UNCHANGED <<exc, xml, dialog, after, result, keys, box, inputs, stores, editor, form,
                   cancel>>

(***************************************************************************)
(* The first screen of a component whose box is computed on its own.       *)
(***************************************************************************)
\* the component up to its first read of a key
draw ==
    /\ pc = "Call"
    /\ content # <<>>
    /\ box' = Box(content[1], content[2], content[3], allow_multiple, screen)
    /\ LET e == CASE content[1] = "Dialog" ->
                        display_dialog_draw(content[2], content[3], screen)
                  [] content[1] = "Menu" ->
                        display_menu(content[2], content[3], allow_multiple, screen)
                  [] content[1] = "Form" -> edit_form(content[2], content[3], screen)
                  [] content[1] = "Lines" ->
                        edit_pick_lines(content[2], content[3], screen)
                  [] content[1] = "Slots" ->
                        edit_transport_lines(content[2], content[3], screen)
       IN  IF e = "" THEN pc' = "Drawn" /\ UNCHANGED exc ELSE Crash(e)
    /\ ev' = <<content[1], "">>
    /\ UNCHANGED <<xml, dialog, after, result, keys, truncated, inputs, stores, editor,
                   form, cancel>>

(***************************************************************************)
(* The sub-flows of the top menu, each called on its own.                  *)
(***************************************************************************)
\* view_order_history_menu(stdscr, config) up to the first read of a key
view_order_history_menu ==
    /\ pc = "Call"
    /\ ev' = <<"view_order_history_menu", "">>
    /\ LET current_osrid == resolve_osr(config, env_osr)
       IN  IF current_osrid = ""
           THEN display_dialog("warning", "Warning", "Returned") /\ UNCHANGED exc
           ELSE IF get_orders_for_osr(history, current_osrid) = <<>>
                THEN display_dialog("info", "Information", "Returned") /\ UNCHANGED exc
                ELSE /\ LET e == IF view_order_history_options # ""
                                 THEN view_order_history_options
                                 ELSE display_menu(
                                        Len(get_orders_for_osr(history, current_osrid)) + 3,
                                        60, FALSE, screen)
                        IN  IF e = "" THEN pc' = "Menu" /\ UNCHANGED exc ELSE Crash(e)
                     /\ UNCHANGED <<dialog, after>>
    /\ UNCHANGED <<xml, result, keys, truncated, box, inputs, stores, editor, form, cancel>>

\* cancel_orders_menu(stdscr, config) up to the first read of a key
cancel_orders_menu ==
    /\ pc = "Call"
    /\ ev' = <<"cancel_orders_menu", "">>
    /\ LET current_osrid == resolve_osr(config, env_osr)
       IN  IF current_osrid = ""
           THEN /\ display_dialog("error", "Configuration Error", "Returned")
                /\ UNCHANGED <<exc, orders>>
           ELSE /\ orders' = get_active_orders(history, current_osrid)
                /\ IF orders' = <<>>
                   THEN display_dialog("info", "Information", "Returned") /\ UNCHANGED exc
                   ELSE /\ LET e == IF cancel_orders_title # ""
                                    THEN cancel_orders_title
                                    ELSE display_menu(Len(orders'), 60, TRUE, screen)
                           IN  IF e = "" THEN pc' = "Menu" /\ UNCHANGED exc ELSE Crash(e)
                        /\ UNCHANGED <<dialog, after>>
    /\ UNCHANGED <<xml, result, keys, truncated, box, inputs, stores, editor, form,
                   selected, cancels>>

\* configure_osr_id(stdscr, config, config_manager) up to the first read
configure_osr_id ==
    /\ pc = "Call"
    /\ ev' = <<"configure_osr_id", "">>
    /\ IF configure_osr_id_draw = ""
       THEN pc' = "OsrPrompt" /\ UNCHANGED exc
       ELSE Crash(configure_osr_id_draw)
    /\ UNCHANGED <<xml, dialog, after, result, keys, truncated, box, inputs, stores, editor,
                   form, cancel>>

\* _configure_server_type(stdscr, config) up to the first read of a key
_configure_server_type ==
    /\ pc = "Call"
    /\ ev' = <<"_configure_server_type", "">>
    /\ LET e == display_menu(Len(SERVER_TYPES), 4, FALSE, screen)
       IN  IF e = "" THEN pc' = "Menu" /\ UNCHANGED exc ELSE Crash(e)
    /\ UNCHANGED <<xml, dialog, after, result, keys, truncated, box, inputs, stores, editor,
                   form, cancel>>

\* the lists of distinct indices below n, of which display_menu hands one to the
\* cancel flow (list(selected) of a set)
IndexLists(n) ==
    {s \in UNION {[1..k -> 0..(n - 1)] : k \in 1..n} :
        \A i, j \in DOMAIN s : i # j => s[i] # s[j]}

\* _confirm_and_cancel_orders(stdscr, orders, selected_indices) up to its read of a
\* key, called with the active orders of the OSR id and a selection among them
_confirm_and_cancel_orders ==
    /\ pc = "Call"
    /\ get_active_orders(history, resolve_osr(config, env_osr)) # <<>>
    /\ ev' = <<"_confirm_and_cancel_orders", "">>
    /\ orders' = get_active_orders(history, resolve_osr(config, env_osr))
    /\ selected' \in IndexLists(Len(orders'))
    /\ pc' = "CancelConfirm"
    /\ UNCHANGED <<exc, xml, dialog, after, result, keys, truncated, box, inputs, stores,
                   editor, form, cancels>>

\* the key read by _confirm_and_cancel_orders: any key but y / Y returns.  Otherwise
\* every selected order is passed to cancel_order, which reports success for all of
\* them when "--dry-run" is in sys.argv and otherwise what send_cancel reports for
\* each; update_status follows each success, whether or not its History.save could
\* write the store, and the dialog tells how many cancel_order calls succeeded
_confirm_and_cancel_orders_key ==
    /\ pc = "CancelConfirm"
    /\ getch
    /\ ev' = <<"_confirm_and_cancel_orders", key>>
    /\ IF key \notin {"y", "Y"}
       THEN /\ pc' = "Returned"
            /\ UNCHANGED <<history, history_file, io_errors, cancels, dialog, after>>
       ELSE \E ok \in [DOMAIN selected -> BOOLEAN], io \in [DOMAIN selected -> SaveOutcomes] :
               /\ argv => \A j \in DOMAIN ok : ok[j]
               /\ \A j \in DOMAIN ok : ~ok[j] => io[j] = "written"   \* nothing is saved
               /\ io_errors + Cardinality({j \in DOMAIN io : io[j] # "written"})
                     <= MaxIOErrors
               /\ io_errors' =
                     io_errors + Cardinality({j \in DOMAIN io : io[j] # "written"})
               /\ cancels' = selected_orders(orders, selected)
               /\ LET store == cancel_all([file |-> history_file, orders |-> history],
                                          selected_orders(orders, selected), ok, io)
                  IN  history' = store.orders /\ history_file' = store.file
               /\ LET success_count == Cardinality({j \in DOMAIN ok : ok[j]})
                  IN  IF success_count = Len(selected)
                      THEN display_dialog("success", "Success", "Returned")
                      ELSE IF success_count > 0
                           THEN display_dialog("warning", "Partial Success", "Returned")
                           ELSE display_dialog("error", "Error", "Returned")
    /\ UNCHANGED <<exc, xml, result, truncated, box, inputs, config, config_file, sent,
                   sandbox, editor, form, orders, selected>>

(***************************************************************************)
(* The dispatches recorded in a row, and the one-shot cleanup.             *)
(***************************************************************************)
\* the payload of the n-th pick order: the default record with the operator name and
\* the Order Number n (the number stands for its decimal text)
nth_order(n) ==
    generate(PICK_STANDARD,
             <<DictSet(DictSet(DEFAULT_ORDER_VALUES[PICK_STANDARD][1], "name", "src"),
                       "Order Number", n)>>,
             <<>>, first_run_store).xml

\* OrderXML.generate for the next order, once the Success dialog of the last one has
\* been dismissed
generate_call ==
    /\ pc = "Returned"
    /\ Len(sent) < MaxAdds
    /\ ev' = <<"generate", "">>
    /\ xml' = nth_order(Len(sent) + 1)
    /\ pc' = "Call"
    /\ UNCHANGED <<exc, dialog, after, result, keys, truncated, box, inputs, stores, editor,
                   form, cancel>>

\* python -m order_gui --cleanup all: without a store there is nothing to clean;
\* otherwise cleanup_history works on the store History.save left
cleanup_history_call ==
    /\ pc = "Call"
    /\ IF history_file = "absent"
       THEN result' = "True" /\ UNCHANGED history
       ELSE LET r == cleanup_history(IF history_file = "array"
                                     THEN Array(history)
                                     ELSE [text |-> ""])
            IN  /\ result' = IF r.returned THEN "True" ELSE "False"
                /\ history' = json_load(r.store)
    /\ pc' = "Exited"
    /\ ev' = <<"cleanup_history", "all">>
    /\ UNCHANGED <<exc, xml, dialog, after, keys, truncated, box, inputs, config,
                   config_file, history_file, io_errors, sent, sandbox, editor, form,
                   cancel>>

(***************************************************************************)
(* The initial states.                                                     *)
(***************************************************************************)
\* nothing has run yet
Fresh ==
    /\ exc = "" /\ result = "" /\ keys = <<>> /\ dialog = <<>> /\ box = <<>>
    /\ orders = <<>> /\ selected = <<>> /\ cancels = <<>> /\ truncated = <<>>

NoEnv == dry_run = FALSE /\ env_osr = "" /\ argv = FALSE

NoConfig == config = first_run_store /\ config_file = config

NoHistory ==
    /\ history = <<>> /\ history_file = "absent" /\ io_errors = 0
    /\ sent = <<>> /\ sandbox = FALSE

NoOrder == selected_mode = "" /\ lines = <<>> /\ idx = 0

NoForm == fields = <<>> /\ values = <<>> /\ field = "" /\ current_row = 0 /\ products = <<>>

\* the terminal of 24 rows and 80 columns; no menu, text or content is passed
Terminal ==
    /\ screen = <<24, 80>> /\ content = <<>>
    /\ options = 0 /\ allow_multiple = FALSE
    /\ text = <<>> /\ max_width = 0

\* the record(s) of a mode as _handle_order_creation hands them on: the stored
\* defaults with the operator name
Named(m) == SetName(DEFAULT_ORDER_VALUES[m], m, "src")

\* one Record of a mode
Rec(m) == IF IsListMode(m) THEN Named(m)[1] ELSE Named(m)

(***************************************************************************)
(* MainController.run, as curses.wrapper calls it.                         *)
(***************************************************************************)
\* what the terminal delivers: keys, and lines typed at a prompt, each the sequence of
\* its characters
RunItems == {<<>>, <<"0">>, <<"s">>, <<"y">>, <<" ", "a">>}

Init ==
    /\ pc = "Start"
    /\ ev = <<"", "">>
    /\ Fresh
    /\ dry_run \in BOOLEAN
    /\ env_osr \in {"", "osr9"}
    /\ argv \in BOOLEAN
    /\ argv => dry_run      \* argparse also takes --dry, --d, ... for --dry-run
    /\ config_file \in load \cup {first_run_store}
    /\ config = config_file
    /\ NoHistory
    /\ NoOrder
    /\ xml = NoXml
    /\ after = ""
    /\ feed \in Feeds(RunItems, MaxFeed) \cup {<<<<"0">>, <<"s">>, <<"y">>>>}
    /\ NoForm
    /\ Terminal

Next ==
    \/ run
    \/ _intro_menu

Spec == Init /\ [][Next]_vars

(***************************************************************************)
(* _handle_order_creation(stdscr, config, selected_mode) called on its     *)
(* own, for every order mode.                                              *)
(***************************************************************************)
EditorKeys == {"UP", "DOWN", "a", "d", "ENTER", "s", "b", "x"}

OrderInit ==
    /\ pc = "Call"
    /\ ev = <<"", "">>
    /\ Fresh
    /\ NoEnv
    /\ config \in load
    /\ config_file = config
    /\ NoHistory
    /\ selected_mode \in Range(ORDER_TYPES)
    /\ lines = <<>>
    /\ idx = 0
    /\ xml = NoXml
    /\ after = ""
    /\ feed \in Feeds(EditorKeys, MaxFeed)
    /\ NoForm
    /\ Terminal

OrderNext ==
    \/ _handle_order_creation
    \/ edit_pick_lines_move
    \/ edit_pick_lines_add
    \/ edit_pick_lines_delete
    \/ edit_pick_lines_enter
    \/ edit_pick_lines_send
    \/ edit_pick_lines_back
    \/ edit_pick_lines_other

OrderSpec == OrderInit /\ [][OrderNext]_vars

(***************************************************************************)
(* edit_pick_lines and edit_transport_lines called on their own with a     *)
(* RecordSet of 1..MaxLines records.                                       *)
(***************************************************************************)
\* the records of a mode: the default record with the operator name, with one of two
\* quantities and, for a slot, one of two slot numbers
Records(m) ==
    {[Rec(m) EXCEPT !["Quantity"] = q] : q \in {"10", "7"}}
        \cup (IF m = TRANSPORT THEN {[Rec(m) EXCEPT !["Slot Number"] = "5"]} ELSE {})

RecordSets(m) == UNION {[1..n -> Records(m)] : n \in 1..MaxLines}

EditorInit ==
    /\ pc = "Call"
    /\ ev = <<"", "">>
    /\ Fresh
    /\ NoEnv
    /\ NoConfig
    /\ NoHistory
    /\ selected_mode \in {PICK_STANDARD, PICK_MANUAL, TRANSPORT}
    /\ lines \in RecordSets(selected_mode)
    /\ idx = 0
    /\ xml = NoXml
    /\ after = "Returned"
    /\ feed \in Feeds(EditorKeys, MaxFeed)
    /\ fields = <<>>
    /\ values = lines
    /\ field = ""
    /\ current_row = 0
    /\ products = <<>>
    /\ Terminal

EditorNext ==
    \/ edit_pick_lines_call
    \/ edit_transport_lines_call
    \/ edit_pick_lines_move
    \/ edit_pick_lines_add
    \/ edit_pick_lines_delete
    \/ edit_pick_lines_enter
    \/ edit_pick_lines_send
    \/ edit_pick_lines_back
    \/ edit_pick_lines_other

EditorSpec == EditorInit /\ [][EditorNext]_vars

(***************************************************************************)
(* display_menu(stdscr, options, allow_multiple=...) called on its own     *)
(* with 1..MaxOptions options.                                             *)
(***************************************************************************)
MenuInit ==
    /\ pc = "Call"
    /\ ev = <<"", "">>
    /\ Fresh
    /\ NoEnv
    /\ NoConfig
    /\ NoHistory
    /\ NoOrder
    /\ xml = NoXml
    /\ after = "Returned"
    /\ feed \in Feeds({"UP", "DOWN", "SPACE", "ENTER", "0", "1", "9", "r", "b", "q"}, MaxFeed)
    /\ NoForm
    /\ options \in 1..MaxOptions
    /\ allow_multiple \in BOOLEAN
    /\ text = <<>>
    /\ max_width = 0
    /\ screen = <<24, 80>>
    /\ content = <<>>

MenuSpec == MenuInit /\ [][display_menu_call]_vars

(***************************************************************************)
(* The Forms called on their own: _edit_order on the record of a           *)
(* single-record mode, _edit_single_line on a pick line and                *)
(* _edit_transport_slot on a slot, each record as stored or as             *)
(* OrderXML.generate leaves it.                                            *)
(***************************************************************************)
\* the record of a mode, and the record after a payload has been built from it:
\* generate puts capacity_specs into the Goods Add record and slot_contents into the
\* first slot of a transport order
FormRecords(m) ==
    {Rec(m),
     IF IsListMode(m)
     THEN generate_effect(m, Named(m), first_run_store)[1]
     ELSE generate_effect(m, Named(m), first_run_store)}

FormInit ==
    /\ pc = "Call"
    /\ ev = <<"", "">>
    /\ Fresh
    /\ NoEnv
    /\ config \in load
    /\ config_file = config
    /\ NoHistory
    /\ selected_mode \in Range(ORDER_TYPES)
    /\ lines = <<>>
    /\ idx = 0
    /\ xml = NoXml
    /\ after = "Returned"
    /\ feed \in Feeds({"UP", "DOWN", "ENTER", "s", "b"}, MaxFeed)
    /\ fields = <<>>
    /\ values \in FormRecords(selected_mode)
    /\ field = ""
    /\ current_row = 0
    /\ products = <<>>
    /\ Terminal

FormNext ==
    \/ _edit_order_call
    \/ _edit_single_line
    \/ _edit_transport_slot

FormSpec == FormInit /\ [][FormNext]_vars

(***************************************************************************)
(* _handle_database_lookup(stdscr, field, values) called on its own, as    *)
(* 'd' in a Form calls it, on a Goods In record, a pick line or a slot.    *)
(***************************************************************************)
LookupInit ==
    /\ pc = "Call"
    /\ ev = <<"", "">>
    /\ Fresh
    /\ dry_run = FALSE
    /\ env_osr \in {"", "osr9"}
    /\ argv = FALSE
    /\ config \in load
    /\ config_file = config
    /\ NoHistory
    /\ selected_mode \in {GOODS_IN, PICK_STANDARD, TRANSPORT}
    /\ lines = <<>>
    /\ idx = 0
    /\ xml = NoXml
    /\ after = ""
    /\ feed \in Feeds({"y", "n", "q", "1", "osr7"}, MaxFeed)   \* "osr7" is a line typed at the
                                                            \* prompt of configure_osr_id
    /\ fields = <<>>
    /\ values = Rec(selected_mode)
    /\ field \in {"Product Code", "Product Name", "Container Type", "Quantity",
                 "Processing Mode"}
    /\ current_row = 0
    /\ products \in {<<>>, <<<<"N1", "c1">>, <<"N2", "c2">>>>}   \* (name, code) rows
    /\ Terminal

LookupNext ==
    \/ _handle_database_lookup
    \/ display_dialog_key

LookupSpec == LookupInit /\ [][LookupNext]_vars

(***************************************************************************)
(* display_dialog(..., show_yes_no=True) called on its own.                *)
(***************************************************************************)
\* the keys pressed in the dialog; "ESC" is key code 27
DialogKeys == {"y", "Y", "n", "N", "ESC", "ENTER", "q", "x", "z"}

DialogInit ==
    /\ pc = "YesNoDialog"
    /\ ev = <<"display_dialog", "">>
    /\ Fresh
    /\ NoEnv
    /\ NoConfig
    /\ NoHistory
    /\ NoOrder
    /\ xml = NoXml
    /\ after = "Returned"
    /\ feed \in Feeds(DialogKeys, MaxKeys)
    /\ NoForm
    /\ Terminal

DialogSpec == DialogInit /\ [][display_dialog_key]_vars

(***************************************************************************)
(* truncate_text(text, max_width) called on its own on the texts of at     *)
(* most MaxText characters and the widths 0..MaxWidth.                     *)
(***************************************************************************)
Texts == UNION {[1..n -> {"a", "."}] : n \in 0..MaxText}

TruncInit ==
    /\ pc = "Call"
    /\ ev = <<"", "">>
    /\ Fresh
    /\ NoEnv
    /\ NoConfig
    /\ NoHistory
    /\ NoOrder
    /\ xml = NoXml
    /\ after = ""
    /\ feed = <<>>
    /\ NoForm
    /\ options = 0
    /\ allow_multiple = FALSE
    /\ text \in Texts
    /\ max_width \in 0..MaxWidth
    /\ screen = <<24, 80>>
    /\ content = <<>>

TruncSpec == TruncInit /\ [][truncate_text_call]_vars

(***************************************************************************)
(* _confirm_and_send_order(stdscr, xml_content, config) called on its own  *)
(* with what a payload builder may hand over: None or "" (NoXml), white    *)
(* space, or the payload of a mode.  "TopMenu" is the loop of              *)
(* _display_main_menu, to which the function returns.                      *)
(***************************************************************************)
Payloads(cfg) ==
    {NoXml, BlankXml} \cup {generate(m, Named(m), Named(m), cfg).xml : m \in Range(ORDER_TYPES)}

ConfirmInit ==
    /\ pc = "Built"
    /\ ev = <<"generate", "">>
    /\ Fresh
    /\ dry_run \in BOOLEAN
    /\ env_osr \in {"", "osr9"}
    /\ argv \in BOOLEAN
    /\ argv => dry_run      \* argparse also takes --dry, --d, ... for --dry-run
    /\ config \in load
    /\ config_file = config
    /\ NoHistory
    /\ NoOrder
    /\ xml \in Payloads(config)
    /\ after = ""
    /\ feed \in Feeds({"y", "n", "ENTER"}, MaxFeed)
    /\ NoForm
    /\ Terminal

ConfirmNext ==
    \/ _confirm_and_send_order_call
    \/ dialog_dismiss

ConfirmSpec == ConfirmInit /\ [][ConfirmNext]_vars

(***************************************************************************)
(* _send_order(stdscr, xml_content, config) called on its own with the     *)
(* payload of a mode.  Whether a transmission succeeds is up to the        *)
(* warehouse controller.                                                   *)
(***************************************************************************)
SendInit ==
    /\ pc = "Call"
    /\ ev = <<"", "">>
    /\ Fresh
    /\ dry_run \in BOOLEAN
    /\ env_osr \in {"", "osr9"}
    /\ argv \in BOOLEAN
    /\ argv => dry_run      \* argparse also takes --dry, --d, ... for --dry-run
    /\ config \in load
    /\ config_file = config
    /\ NoHistory
    /\ NoOrder
    /\ xml \in Payloads(config) \ {NoXml, BlankXml}
    /\ after = ""
    /\ feed \in Feeds({"ENTER", "q"}, MaxFeed)
    /\ NoForm
    /\ Terminal

SendNext ==
    \/ _send_order_no_osr
    \/ _send_order_failed
    \/ _send_order_sent
    \/ handle_post_order
    \/ dialog_dismiss

SendSpec == SendInit /\ [][SendNext]_vars

(***************************************************************************)
(* The sub-flows of the top menu and _confirm_and_cancel_orders, each      *)
(* called on its own on a history store of at most MaxHistory records.     *)
(***************************************************************************)
HistoryRecords ==
    [order_id : {<<"src", OrderInfix[PICK_STANDARD], n>> : n \in {"1", "2"}},
     type : {PICK_STANDARD},
     osrid : {"osr1", "osr2"},
     status : {"sent", "dry_run"}]

Histories == UNION {[1..n -> HistoryRecords] : n \in 0..MaxHistory}

SubflowInit ==
    /\ pc = "Call"
    /\ ev = <<"", "">>
    /\ Fresh
    /\ dry_run \in BOOLEAN
    /\ env_osr = ""
    /\ argv \in BOOLEAN
    /\ argv => dry_run      \* argparse also takes --dry, --d, ... for --dry-run
    /\ config \in {c \in load : c.server_type = LIVE}
    /\ config_file = config
    /\ history \in Histories
    /\ history_file = IF history = <<>> THEN "absent" ELSE "array"
    /\ io_errors = 0
    /\ sent = <<>>
    /\ sandbox = FALSE
    /\ NoOrder
    /\ xml = NoXml
    /\ after = ""
    /\ feed \in {<<k, "ENTER">> : k \in {"y", "Y", "n", "x"}}   \* the answer, and the key that
                                                              \* dismisses a dialog
    /\ NoForm
    /\ Terminal

SubflowNext ==
    \/ view_order_history_menu
    \/ cancel_orders_menu
    \/ configure_osr_id
    \/ _configure_server_type
    \/ _confirm_and_cancel_orders
    \/ _confirm_and_cancel_orders_key
    \/ dialog_dismiss

SubflowSpec == SubflowInit /\ [][SubflowNext]_vars

(***************************************************************************)
(* The first screen of each component, called on its own with a terminal   *)
(* of 1..MaxRows rows and a content of 0..MaxContent lines.                *)
(***************************************************************************)
FrameInit ==
    /\ pc = "Call"
    /\ ev = <<"", "">>
    /\ Fresh
    /\ NoEnv
    /\ NoConfig
    /\ NoHistory
    /\ NoOrder
    /\ xml = NoXml
    /\ after = ""
    /\ feed = <<>>
    /\ NoForm
    /\ options = 0
    /\ text = <<>>
    /\ max_width = 0
    /\ screen \in (1..MaxRows) \X {35, 40, 80, 200}
    /\ content \in {"Dialog", "Menu", "Form", "Lines", "Slots"}
                      \X (0..MaxContent) \X {0, 60, 120}
    /\ content[1] = "Dialog" => content[2] >= 1      \* "".split("\n") is [""]
    /\ allow_multiple \in (IF content[1] = "Menu" THEN BOOLEAN ELSE {FALSE})

FrameSpec == FrameInit /\ [][draw]_vars

(***************************************************************************)
(* Up to MaxAdds live dispatches in a row, each recorded by                *)
(* History.add_order (the n-th order carries the order number n), and the  *)
(* one-shot --cleanup all run on the store they leave.                     *)
(***************************************************************************)
HistInit ==
    /\ pc = "Call"
    /\ ev = <<"", "">>
    /\ Fresh
    /\ NoEnv
    /\ config \in {c \in load : c.server_type = LIVE /\ c.osr_id = "osr1"}
    /\ config_file = config
    /\ NoHistory
    /\ NoOrder
    /\ xml = nth_order(1)
    /\ after = ""
    /\ feed = [i \in 1..MaxAdds |-> "ENTER"]
    /\ NoForm
    /\ Terminal

HistNext ==
    \/ _send_order_sent
    \/ dialog_dismiss
    \/ generate_call
    \/ cleanup_history_call

HistSpec == HistInit /\ [][HistNext]_vars

(***************************************************************************)
(* The properties.                                                         *)
(***************************************************************************)
\* the function called has come to rest: it has returned, an exception has left it, or
\* it waits for a key the terminal does not deliver
Settled ==
    /\ pc \notin {"Call", "Start", "Built"}
    /\ pc \in {"Returned", "Crashed", "Exited", "TopMenu"} \/ keys = feed

\* C2: in the line editors, called with a RecordSet of at least one record, the
\* RecordSet holds at least one record after every key.
C2_NeverEmpty == Len(lines) >= 1

\* 'd' on the second of two records has removed it
C2_Witness ==
    /\ ev = <<"edit_pick_lines_delete", "d">>
    /\ keys = <<"DOWN", "d">>
    /\ Len(values) = 2
    /\ lines = <<values[1]>>

\* C3: 'a' in the transport line editor leaves it waiting for the next key with one
\* slot more, the Slot Number values being 1..N in record order.
C3_SlotsRenumbered ==
    (selected_mode = TRANSPORT /\ feed = <<"a">> /\ Settled) =>
        /\ pc = "Slots"
        /\ keys = feed
        /\ Len(lines) = Len(values) + 1
        /\ \A i \in DOMAIN lines : lines[i]["Slot Number"] = str(i)

\* C5: in a dry run with an OSR id, choosing Pick Standard (0) at the top menu, 's' in
\* the line editor and 'y' at the confirmation leaves exactly one history entry, with
\* the status dry_run and the id <name>-pick-<Order Number>, and transmits nothing.
C5_DryRunEndToEnd ==
    (/\ dry_run
     /\ resolve_osr(config_file, env_osr) # ""
     /\ ~config_file.first_run
     /\ feed = <<<<"0">>, <<"s">>, <<"y">>>>
     /\ Settled) =>
        /\ Len(history) = 1
        /\ history[1].status = "dry_run"
        /\ history[1].order_id = <<config.name, "pick", "1">>
        /\ sent = <<>>

\* C6: 'n' at the confirmation of a payload with text returns to the top menu with the
\* key read, nothing transmitted, no history entry and the configuration store as
\* saved.
C6_NoReturnsToTopMenu ==
    (strip(xml) # NoXml /\ feed = <<"n">> /\ Settled) =>
        /\ pc = "TopMenu"
        /\ keys = feed
        /\ history = <<>>
        /\ sent = <<>>
        /\ config_file = config

\* C7: when OrderSender.send raises, _send_order shows the error dialog, adds no
\* history entry, transmits nothing, does not call the sandbox sub-flow, and returns
\* once the dialog is dismissed.
C7_FailedSendNotRecorded ==
    [][/\ (pc = "Call" /\ dialog' = <<"error", "Error">>) =>
             /\ pc' = "Dialog" /\ after' = "Returned"
             /\ history' = history /\ sent' = sent /\ sandbox' = sandbox
       /\ (pc = "Dialog" /\ dialog = <<"error", "Error">> /\ ~sandbox) =>
             /\ pc' = "Returned"
             /\ history' = history /\ sent' = sent /\ sandbox' = sandbox]_vars

\* the error dialog of a transmission that failed, on a Test server
C7_Witness ==
    /\ pc = "Dialog"
    /\ ev = <<"_send_order", "">>
    /\ dialog = <<"error", "Error">>
    /\ resolve_osr(config, env_osr) # ""
    /\ ~dry_run
    /\ config.server_type = TEST
    /\ history = <<>>
    /\ ~sandbox

\* C8: 'b' as the first key of the editing session of any mode returns from
\* _handle_order_creation with the key read and the configuration store as it was.
C8_BackPersistsNothing ==
    (feed = <<"b">> /\ Settled) =>
        /\ pc = "Returned"
        /\ keys = feed
        /\ config_file.orders = DEFAULT_ORDER_VALUES

\* C9: Enter on the active record followed by 's' in the Form ends the line editor,
\* which returns True.
C9_FormAcceptEndsEditor ==
    (feed = <<"ENTER", "s">> /\ Settled) =>
        /\ pc = "Returned"
        /\ result = "True"

\* C10: _handle_order_creation opens the Form with the schema fields for a
\* single-record mode, and a line editor on the stored list for a multi-record mode,
\* Transport included.
C10_ModeOpensItsEditor ==
    ev[1] = "_handle_order_creation" =>
        IF IsListMode(selected_mode)
        THEN /\ pc \in {"Lines", "Slots"}
             /\ lines = config.orders[selected_mode]
        ELSE fields = FIELD_ORDER[selected_mode]

\* C13: in a single-select menu of at least two options the digit 1 returns 1 at once.
C13_DigitChooses ==
    (~allow_multiple /\ options >= 2 /\ feed = <<"1">> /\ Settled) =>
        /\ pc = "Returned"
        /\ result = "1"

\* C14: a yes/no dialog returns True on the first y/Y and False on the first
\* n/N/Escape of the keys it reads; any other key is ignored and the dialog waits on,
\* so it has returned exactly when one of these keys was read.
C14_YesNoResolves ==
    LET decisive == {i \in DOMAIN keys : keys[i] \in {"y", "Y", "n", "N", "ESC"}}
    IN  IF decisive = {}
        THEN pc = "YesNoDialog" /\ result = ""
        ELSE LET first == CHOOSE i \in decisive : \A j \in decisive : i <= j
             IN  /\ pc = "Returned"
                 /\ Len(keys) = first
                 /\ result = IF keys[first] \in {"y", "Y"} THEN "True" ELSE "False"

C14_Witness == /\ pc = "Returned" /\ keys = <<"x", "z", "y">> /\ result = "True"

\* C15: 's' in a Form returns from it with the key read.
C15_AcceptReturnsRecord ==
    (feed = <<"s">> /\ Settled) =>
        /\ pc = "Returned"
        /\ keys = feed

\* C16: 'd' in a line editor that holds one record leaves the editor waiting for the
\* next key, with the RecordSet and the active index as they were.
C16_LastLineKept ==
    (Len(values) = 1 /\ feed = <<"d">> /\ Settled) =>
        /\ pc \in {"Lines", "Slots"}
        /\ keys = feed
        /\ lines = values
        /\ idx = 0

\* C18: handle_post_order is called only with the server type Test, and only after
\* the order was recorded in the history with the status of the dispatch, and
\* transmitted unless the run is a dry run.
C18_SandboxOnlyOnTest ==
    sandbox =>
        /\ config.server_type = TEST
        /\ Len(history) = 1
        /\ history[1].order_id = extract_order_id_from_xml(xml)
        /\ history[1].status = IF dry_run THEN "dry_run" ELSE "sent"
        /\ sent = IF dry_run THEN <<>> ELSE <<xml>>

\* C18, amended: handle_post_order is called only with the server type Test, and only
\* after the order was transmitted, unless the run is a dry run, and History.add_order
\* was called for it; the order is in the history with the status of the dispatch
\* unless History.save could not write the store, in which case the store holds no
\* record of it.
C18_SandboxOnlyOnTestAfterAddOrder ==
    sandbox =>
        /\ config.server_type = TEST
        /\ sent = IF dry_run THEN <<>> ELSE <<xml>>
        /\ IF io_errors = 0
           THEN /\ history_file = "array"
                /\ Len(history) = 1
                /\ history[1].order_id = extract_order_id_from_xml(xml)
                /\ history[1].status = IF dry_run THEN "dry_run" ELSE "sent"
           ELSE history = <<>>

\* the sandbox sub-flow called after the Success dialog of a dry run
C18_Witness ==
    /\ sandbox
    /\ ev = <<"handle_post_order", "ENTER">>
    /\ dry_run
    /\ history # <<>>
    /\ history[1].type = TRANSPORT

\* C19: a payload that is None, empty or white space only gets the error dialog, which
\* returns to the top menu; the confirmation screen is shown only for a payload with
\* text, and neither the dispatch nor the history is touched on the way.
C19_EmptyPayloadRefused ==
    [][/\ (pc = "Built" /\ strip(xml) = NoXml) =>
            /\ pc' = "Dialog" /\ dialog' = <<"error", "Error">> /\ after' = "TopMenu"
            /\ history' = history /\ sent' = sent
       /\ (pc = "Dialog" /\ dialog = <<"error", "Error">>) =>
            /\ pc' = "TopMenu" /\ history' = history /\ sent' = sent
       /\ pc' = "Confirming" => strip(xml') # NoXml]_vars

C19_Witness == /\ pc = "Dialog" /\ ev[1] = "_confirm_and_send_order" /\ xml = BlankXml
               /\ dialog = <<"error", "Error">> /\ after = "TopMenu" /\ sent = <<>>
               /\ ~dry_run /\ env_osr # ""

\* C20: no exception leaves view_order_history_menu, cancel_orders_menu,
\* configure_osr_id or _configure_server_type.
C20_SubflowsReturn ==
    ev[1] \in {"view_order_history_menu", "cancel_orders_menu", "configure_osr_id",
               "_configure_server_type"} =>
        /\ pc # "Crashed"
        /\ exc = ""

\* C21: the field list a Form is opened with is the schema of the mode, in schema
\* order, followed by the fields of the Record that the schema does not have: every
\* field of the Record is in the list.
C21_EveryFieldListed ==
    fields # <<>> =>
        LET schema == FIELD_ORDER[selected_mode]
        IN  /\ Len(fields) >= Len(schema)
            /\ SubSeq(fields, 1, Len(schema)) = schema
            /\ Range(fields) = Range(schema) \cup DOMAIN values

\* C22: truncate_text returns at most max_width characters for every text and every
\* max_width >= 0, returns the text itself when it fits, and otherwise a prefix of the
\* text, followed by the ellipsis where there is room for it.
C22_TruncateFits ==
    (pc = "Returned" /\ ev[1] = "truncate_text") =>
        /\ Len(truncated) <= max_width
        /\ Len(text) <= max_width => truncated = text
        /\ Len(text) > max_width =>
              \/ truncated = PyPrefix(text, max_width)
              \/ truncated = PyPrefix(text, max_width - Len(suffix)) \o suffix

C25_DownMovesByOne ==
    (options >= 2 /\ feed = <<"DOWN">> /\ Settled) =>
        /\ pc = "Menu"
        /\ keys = feed
        /\ current_row = 1

C27_AddAppendsCopy ==
    (feed = <<"a">> /\ Settled) =>
        /\ Len(lines) = Len(values) + 1
        /\ SubSeq(lines, 1, Len(values)) = values
        /\ \A f \in DOMAIN values[Len(values)] \ {"Slot Number"} :
              lines[Len(lines)][f] = values[Len(values)][f]

\* C28: in a multi-select menu Space followed by Enter returns the list of the
\* highlighted index, [0].
C28_SpaceThenEnter ==
    (allow_multiple /\ feed = <<"SPACE", "ENTER">> /\ Settled) =>
        /\ pc = "Returned"
        /\ keys = feed
        /\ result = "[0]"

\* C29: no exception leaves the lookup of a field other than Processing Mode, and the
\* Record is as it was.
C29_LookupErrorsContained ==
    (field # "Processing Mode" /\ pc # "Call") =>
        /\ pc # "Crashed"
        /\ exc = ""
        /\ values = Rec(selected_mode)

\* C30: with an OSR id and two products in the database, the digit 1 in the lookup of
\* a product field sets Product Name and Product Code to those of the second product
\* and leaves the other fields.
C30_CandidateWritten ==
    (/\ field \in {"Product Code", "Product Name"}
     /\ products # <<>>
     /\ resolve_osr(config_file, env_osr) # ""
     /\ feed = <<"1">>
     /\ Settled) =>
        /\ pc = "Returned"
        /\ values = DictSet(DictSet(Rec(selected_mode), "Product Name", products[2][1]),
                            "Product Code", products[2][2])

\* C31: in every terminal and for every content the box a Menu, a Form, a line editor
\* or a Dialog computes lies inside the terminal, and drawing it raises no error.
C31_BoxInsideTerminal ==
    box # <<>> => /\ 0 <= box.y /\ 0 <= box.x /\ box.y + box.height <= screen[1]
                  /\ box.x + box.width <= screen[2] /\ exc = ""

\* C33: with no OSR id configured, 'y' at the question of the lookup and the id osr7
\* typed at the prompt leave osr7 as the OSR id of the configuration store.
C33_OsrIdKept ==
    (/\ field = "Product Code"
     /\ config.osr_id = NoOsrId
     /\ env_osr = ""
     /\ feed = <<"y", "osr7">>
     /\ Settled) =>
        config_file.osr_id = "osr7"

\* the positions in the history store of the orders selected in the cancel menu
SelectedRecords ==
    LET osrid == resolve_osr(config, env_osr)
        rows == SelectSeq([k \in 1..Len(history) |-> k],
                          LAMBDA k : get_active_orders(<<history[k]>>, osrid) # <<>>)
    IN  {rows[selected[j] + 1] : j \in DOMAIN selected}

\* C34: when the cancel flow reports success, every history record the operator
\* selected has the status cancelled and is no longer an active order, and every other
\* record has the status it had, whatever the history holds (also records that share
\* an order id).
C34_SelectedCancelled ==
    [][(pc = "CancelConfirm" /\ dialog' = <<"success", "Success">>) =>
          /\ Len(history') = Len(history)
          /\ \A k \in DOMAIN history :
                /\ k \in SelectedRecords =>
                      /\ history'[k].status = "cancelled"
                      /\ get_active_orders(<<history'[k]>>, history[k].osrid) = <<>>
                /\ k \notin SelectedRecords => history'[k].status = history[k].status]_vars

\* C35: a history record becomes cancelled only in the step of
\* _confirm_and_cancel_orders in which y or Y was pressed, only if it is a record the
\* operator selected in the cancel menu, and only if it was passed to cancel_order;
\* any other key at the question leaves the history store as it is and passes no
\* order to cancel_order.
C35_CancelledOnlyOnYes ==
    [][/\ \A k \in DOMAIN history :
             (k \in DOMAIN history' /\ history'[k].status = "cancelled"
                 /\ history[k].status # "cancelled") =>
                /\ pc = "CancelConfirm"
                /\ ev'[1] = "_confirm_and_cancel_orders"
                /\ ev'[2] \in {"y", "Y"}
                /\ k \in SelectedRecords
                /\ history[k] \in Range(cancels')
       /\ (pc = "CancelConfirm" /\ ev'[2] \notin {"y", "Y"}) =>
             /\ history' = history
             /\ cancels' = <<>>]_vars

\* C36: every History.add_order leaves at most 100 records, the new record first,
\* followed by the records the store held, in their order, without the oldest when
\* the store was full.
C36_NewestFirstCapped ==
    [][(ev'[1] = "add_order") =>
          /\ Len(history') <= 100
          /\ Len(history') = IF Len(history) < 100 THEN Len(history) + 1 ELSE 100
          /\ history'[1].order_id = sent'[Len(sent')].order_number
          /\ \A k \in 2..Len(history') : history'[k] = history[k - 1]]_vars

\* C36, amended: every History.add_order leaves at most 100 records.  When History.save
\* wrote the store, the new record is first, followed by the records the store held,
\* in their order, without the oldest when the store was full; when open failed, the
\* store holds what it held; when json.dump failed, History.load reads no record.
C36_NewestFirstCappedWhenWritten ==
    [][(ev'[1] = "add_order") =>
          /\ Len(history') <= 100
          /\ ev'[2] = "written" =>
                /\ Len(history') = IF Len(history) < 100 THEN Len(history) + 1 ELSE 100
                /\ history'[1].order_id = sent'[Len(sent')].order_number
                /\ \A k \in 2..Len(history') : history'[k] = history[k - 1]
          /\ ev'[2] = "open failed" => history' = history
          /\ ev'[2] = "dump failed" => history' = <<>>]_vars

C36_Witness == /\ ev[1] = "add_order" /\ Len(sent) = HistoryCap + 2 /\ Len(history) = HistoryCap
               /\ history[1].order_id[3] = HistoryCap + 2 /\ history[HistoryCap].order_id[3] = 3

\* C37: the orders the cancel flow lists, and the orders passed to cancel_order, are
\* records of the current OSR id with the status sent, processing or pending: a record
\* with the status dry_run is never among them.
C37_DryRunNeverCancelled ==
    LET osrid == resolve_osr(config, env_osr)
        Open(o) == /\ o.status \in {"sent", "processing", "pending"}
                   /\ o.status # "dry_run"
                   /\ o.osrid = osrid
    IN  /\ \A i \in DOMAIN orders : Open(orders[i])
        /\ \A i \in DOMAIN cancels : Open(cancels[i])
        /\ pc = "CancelConfirm" => \A k \in SelectedRecords : Open(history[k])

\* an order was passed to cancel_order while the history holds a dry-run record of
\* the same OSR id
C37_Witness ==
    /\ pc = "Dialog"
    /\ ev = <<"_confirm_and_cancel_orders", "y">>
    /\ cancels # <<>>
    /\ \E k \in DOMAIN history :
          history[k].status = "dry_run" /\ history[k].osrid = resolve_osr(config, env_osr)

\* C40: after any number of History.add_order calls the one-shot cleanup with the
\* timeframe all succeeds and leaves a store from which History.load returns no
\* record.
C40_CleanupAllEmpties ==
    (pc = "Exited" /\ ev[1] = "cleanup_history") => /\ result = "True" /\ history = <<>>
====
